---- MODULE Spec2Model ----
(***************************************************************************)
(* Verification model of modular-api: the in-memory rate limiter           *)
(* (services/rateLimiter.js), the API-key quota tracker                    *)
(* (services/apiKeyManager.js), the code runner (services/codeRunner.js)   *)
(* and the request pipeline (routes/api.js, middleware/auth.js).           *)
(*                                                                         *)
(* Node.js runs every handler on one thread: a handler runs without        *)
(* interruption from one await to the next, so each action below is one    *)
(* such run-to-completion step.                                            *)
(***************************************************************************)
EXTENDS Integers, Sequences, FiniteSets, TLC

VARIABLES
  now,        \* Date.now(), in milliseconds (rate limiter clock)
  routes,     \* the ApiRoute table: route id -> route record
  store,      \* rateLimiter.js `store`: a Map from key to {count, resetAt}
  rlRes,      \* the object returned by the latest checkRateLimit call
  rlCall,     \* history: what the latest checkRateLimit call found on entry
  rlRank,     \* history: key -> number of consecutive checks of the key
              \* since a check last found no live entry for it
  clock,      \* `new Date()`, in hours since 1 January 00:00 local time
  apiKeys,    \* the ApiKey table: key id -> credential record
  qcall,      \* the checkAndUpdateQuota calls: call id -> position and locals
  qGranted,   \* history: key id -> calls of the current period that returned
              \* allowed=true
  qLast,      \* history: the latest checkAndUpdateQuota call that returned
  env,        \* process.env: the language toggles
  ex,         \* one executeCode call: its promise, harness file, child
              \* process, kill timer and the output collected so far
  req,        \* the requests in the catch-all handler: request id -> the
              \* request, the handler's position and locals, and the reply
  resolution, \* one route resolution: the storage order of the ApiRoute
              \* table, the request, the route found and the answer
  login,      \* the POST /auth/login handlers: attempt id -> position and
              \* locals; and the history of the current window
  routeCache, \* routeCache.js `routeCache`: a Map from `${method}:${path}`
              \* to {route, expiresAt}; and the latest lookup through it
  cacheStats, \* routeCache.js `cacheStats`: hits and misses
  cacheHistory, \* history: the getCachedRoute calls since the latest
              \* resetCacheStats, and for each key the route and time of
              \* its latest setCachedRoute unless the key was invalidated
              \* since
  unswept     \* a second rate limiter that is given the same calls at the
              \* same times and whose sweep never runs: its store and the
              \* result of its latest check

rlVars == <<now, routes, store, rlRes, rlCall, rlRank>>
quotaVars == <<clock, apiKeys, qcall, qGranted, qLast>>
execVars == <<env, ex>>
adminVars == <<login, routeCache, cacheStats, cacheHistory>>
vars == <<now, routes, store, rlRes, rlCall, rlRank,
          clock, apiKeys, qcall, qGranted, qLast, env, ex, req, resolution,
          login, routeCache, cacheStats, cacheHistory, unswept>>

----------------------------------------------------------------------------
(* Bounds *)

MaxNow == 3500               \* the clock stops advancing here
StartTimes == {1000}         \* values of Date.now() at start
Deltas == {500, 1000}        \* the clock advances by one of these
MaxLimit == 3                \* rateLimitRequests ranges over 0..MaxLimit
MaxCount == 4                \* no more checks once an entry counted this many
Windows == {1, 2}            \* rateLimitWindow, in seconds
RouteIds == {"r1"}
Identifiers == {"ip1", "ip2"}
KeyIds == {"k1"}             \* ids of the credentials
MaxQuota == 2                \* quotaLimit ranges over 0..MaxQuota
NumCalls == 2                \* concurrent checkAndUpdateQuota calls
MaxClock == 900              \* the quota clock stops advancing here
StartClocks == {708}         \* 30 January 12:00
ClockDeltas == {24, 168}     \* the quota clock advances by a day or a week
MaxLines == 2                \* lines a child process writes to stdout
MaxCalls == 2                \* calls of respond() / json() in one run
MaxRoutes == 2               \* routes in the table the resolver is given
NumReqs == 2                 \* concurrent requests in the pipeline
PipeDeltas == {1500}         \* the clock steps between the pipeline's requests
NumLogins == 2               \* concurrent POST /auth/login handlers
MaxAttempts == 7             \* no more attempts once an entry counted this many
MaxLoginNow == 1400000       \* the clock of the login attempts stops here
LoginDeltas == {450000}      \* that clock advances by half a window
MaxCacheNow == 91000         \* the clock of the route cache stops here
MaxLookups == 3              \* getCachedRoute calls between two resets of the stats
CacheDeltas == {30000}       \* that clock advances by half the TTL

----------------------------------------------------------------------------
(* Helpers *)

Max(a, b) == IF a >= b THEN a ELSE b

\* Math.ceil(a / b) for b > 0
Ceil(a, b) == IF a >= 0 THEN (a + b - 1) \div b ELSE -((-a) \div b)

----------------------------------------------------------------------------
(* services/rateLimiter.js *)

MsPerSecond == 1000

\* generateKey: `${routeId}:${identifier}`; route ids hold no ':', so the
\* string determines the pair
generateKey(identifier, routeId) == <<routeId, identifier>>

Keys == {generateKey(i, r) : i \in Identifiers, r \in RouteIds}

\* the config object the callers build from a route record
RateLimitConfig(route) ==
  [routeId  |-> route.id,
   requests |-> route.rateLimitRequests,
   window   |-> route.rateLimitWindow,
   enabled  |-> route.rateLimitEnabled]

\* NoLiveEntry without the expiry test: an entry lives for ever
NoLiveEntry_NoExpiry(st, key, t) == key \notin DOMAIN st

\* `!entry || entry.resetAt < now`
NoLiveEntry(st, key, t) == key \notin DOMAIN st \/ st[key].resetAt < t

\* CurrentEntry with the comparison inverted: a live entry is replaced
CurrentEntry_Inverted(st, key, config, t) ==
  IF key \notin DOMAIN st \/ st[key].resetAt > t
  THEN [count |-> 0, resetAt |-> t + config.window * MsPerSecond]
  ELSE st[key]

\* lines 49-57: the stored entry, or a fresh one when none is live
CurrentEntry(st, key, config, t) ==
  IF NoLiveEntry(st, key, t)
  THEN [count |-> 0, resetAt |-> t + config.window * MsPerSecond]
  ELSE st[key]

\* a mutation of Counted: every counted call pushes the end of the window
\* one second further
Counted_Sliding(entry) ==
  [entry EXCEPT !.count = @ + 1, !.resetAt = @ + MsPerSecond]

\* line 60: entry.count++
Counted(entry) == [entry EXCEPT !.count = @ + 1]

\* Allowed with a strict comparison
Allowed_Strict(entry, config) == entry.count < config.requests

\* line 64
Allowed(entry, config) == entry.count <= config.requests

\* line 63
Remaining(entry, config) == Max(0, config.requests - entry.count)

\* line 75
RetryAfter(entry, t) == Ceil(entry.resetAt - t, MsPerSecond)

\* lines 66-78: the result object; retryAfter is present only on rejection
RateLimitResult(entry, config, t) ==
  [unlimited  |-> FALSE,
   allowed    |-> Allowed(entry, config),
   remaining  |-> Remaining(entry, config),
   resetAt    |-> entry.resetAt,
   limit      |-> config.requests,
   window     |-> config.window,
   hasRetry   |-> ~Allowed(entry, config),
   retryAfter |-> IF Allowed(entry, config) THEN 0 ELSE RetryAfter(entry, t)]

\* line 42: { allowed: true, remaining: Infinity, resetAt: null }
UnlimitedResult(config) ==
  [unlimited  |-> TRUE,
   allowed    |-> TRUE,
   remaining  |-> 0,
   resetAt    |-> 0,
   limit      |-> config.requests,
   window     |-> config.window,
   hasRetry   |-> FALSE,
   retryAfter |-> 0]

\* the store after checkRateLimit(identifier, config) at time t
StoreAfterCheck(st, identifier, config, t) ==
  IF ~config.enabled THEN st
  ELSE LET key   == generateKey(identifier, config.routeId)
           entry == Counted(CurrentEntry(st, key, config, t))
       IN  [k \in DOMAIN st \cup {key} |-> IF k = key THEN entry ELSE st[k]]

\* the value checkRateLimit(identifier, config) returns at time t
checkRateLimit(st, identifier, config, t) ==
  IF ~config.enabled THEN UnlimitedResult(config)
  ELSE LET key == generateKey(identifier, config.routeId)
       IN  RateLimitResult(Counted(CurrentEntry(st, key, config, t)), config, t)

\* resetRateLimit(identifier, routeId): store.delete(key)
StoreAfterReset(st, identifier, routeId) ==
  [k \in DOMAIN st \ {generateKey(identifier, routeId)} |-> st[k]]

\* a mutation of StoreAfterSweep: entries that end now are deleted too
StoreAfterSweep_AtReset(st, t) ==
  [k \in {q \in DOMAIN st : ~(st[q].resetAt <= t)} |-> st[k]]

\* the setInterval callback: delete every entry with resetAt < now
StoreAfterSweep(st, t) ==
  [k \in {q \in DOMAIN st : ~(st[q].resetAt < t)} |-> st[k]]

NoCall == [made |-> FALSE, key |-> <<"", "">>, at |-> 0, live |-> FALSE,
           hadEntry |-> FALSE, oldCount |-> 0, oldResetAt |-> 0, k |-> 0,
           config |-> [routeId |-> "", requests |-> 0, window |-> 0,
                       enabled |-> FALSE]]

\* the rank of a check made at time t: 1 when the key has no entry or its
\* entry's window is over (resetAt < t), one more than the previous otherwise
RankOf(key, t) ==
  IF key \in DOMAIN store /\ t <= store[key].resetAt
  THEN rlRank[key] + 1 ELSE 1

\* history of a call: what it found on entry, and its rank
CallRecord(identifier, config, t) ==
  LET key  == generateKey(identifier, config.routeId)
  IN  [made |-> TRUE, key |-> key, at |-> t,
       live |-> key \in DOMAIN store /\ t <= store[key].resetAt,
       hadEntry   |-> key \in DOMAIN store,
       oldCount   |-> IF key \in DOMAIN store THEN store[key].count ELSE 0,
       oldResetAt |-> IF key \in DOMAIN store THEN store[key].resetAt ELSE 0,
       k |-> RankOf(key, t), config |-> config]

\* a route with the defaults of the admin API's schema
DefaultRoute(id) ==
  [id |-> id, rateLimitEnabled |-> FALSE, rateLimitRequests |-> 100,
   rateLimitWindow |-> 60]

\* the second rate limiter before any call
NoUnswept ==
  [store |-> << >>, hadEntry |-> FALSE,
   res |-> UnlimitedResult(RateLimitConfig(DefaultRoute("")))]

SweepIdle == unswept = NoUnswept

\* the rate limiter at rest, as the other specifications leave it
RateLimiterIdle ==
  /\ now = 0
  /\ store = << >>
  /\ rlRes = UnlimitedResult(RateLimitConfig(DefaultRoute("")))
  /\ rlCall = NoCall
  /\ rlRank = [k \in Keys |-> 0]

----------------------------------------------------------------------------
(* services/apiKeyManager.js: checkAndUpdateQuota *)

\* a nullable Date column: << >> is null, <<t>> is the date t
NullDate == << >>
DateOf(t) == <<t>>
TimeOf(d) == d[1]

Periods == {"day", "week", "month"}
CallIds == 1..NumCalls

HoursPerDay == 24
DaysPerWeek == 7

\* the lengths of the months of a common year, January first
MonthLengths == <<31, 28, 31, 30, 31, 30, 31, 31, 30, 31, 30, 31>>
DaysOfMonth(m) == MonthLengths[(m % 12) + 1]

RECURSIVE DaysBefore(_)
\* the days between 1 January and the first of month m (0 = January; months
\* from 12 on are those of the following years)
DaysBefore(m) == IF m = 0 THEN 0 ELSE DaysBefore(m - 1) + DaysOfMonth(m - 1)

RECURSIVE MonthFrom(_, _)
\* the month a day (counted from 1 January) falls in, searching from month m
MonthFrom(day, m) ==
  IF day < DaysBefore(m + 1) THEN m ELSE MonthFrom(day, m + 1)

\* now.getMonth() (counted on over the years) and now.getDate()
GetMonth(t) == MonthFrom(t \div HoursPerDay, 0)
GetDate(t) == (t \div HoursPerDay) - DaysBefore(GetMonth(t)) + 1

\* new Date(year, month, date): local midnight of that day; a date past the
\* end of the month runs on into the following month
DateAt(month, date) == (DaysBefore(month) + (date - 1)) * HoursPerDay

\* lines 68-80: the next reset date computed at time t
NextReset(period, t) ==
  CASE period = "day"  -> t + HoursPerDay
    [] period = "week" -> t + DaysPerWeek * HoursPerDay
    [] OTHER           -> DateAt(GetMonth(t) + 1, GetDate(t))

\* ShouldReset with a strict comparison: no reset at the reset date itself
ShouldReset_Strict(apiKey, t) ==
  IF apiKey.quotaResetAt = NullDate THEN TRUE
  ELSE t > TimeOf(apiKey.quotaResetAt)

\* lines 57-64
ShouldReset(apiKey, t) ==
  IF apiKey.quotaResetAt = NullDate THEN TRUE
  ELSE t >= TimeOf(apiKey.quotaResetAt)

\* QuotaExceeded with a strict comparison: one request more is let through
QuotaExceeded_OffByOne(apiKey) == apiKey.quotaUsed > apiKey.quotaLimit

\* line 96
QuotaExceeded(apiKey) == apiKey.quotaUsed >= apiKey.quotaLimit

\* a mutation of QuotaDecision: the quotaEnabled flag is not consulted
QuotaDecision_IgnoresEnabled(apiKey, t) ==
  IF ShouldReset(apiKey, t)
  THEN [write |-> "reset",
        nextReset |-> DateOf(NextReset(apiKey.quotaPeriod, t)),
        result |-> [tracked |-> TRUE, allowed |-> TRUE, used |-> 1,
                    limit |-> apiKey.quotaLimit,
                    resetAt |-> DateOf(NextReset(apiKey.quotaPeriod, t))]]
  ELSE IF QuotaExceeded(apiKey)
  THEN [write |-> "none", nextReset |-> NullDate,
        result |-> [tracked |-> TRUE, allowed |-> FALSE,
                    used |-> apiKey.quotaUsed, limit |-> apiKey.quotaLimit,
                    resetAt |-> apiKey.quotaResetAt]]
  ELSE [write |-> "increment", nextReset |-> NullDate,
        result |-> [tracked |-> TRUE, allowed |-> TRUE,
                    used |-> apiKey.quotaUsed + 1, limit |-> apiKey.quotaLimit,
                    resetAt |-> apiKey.quotaResetAt]]

\* what a call decides from the record it read, at time t: the update it
\* issues ("none" when it writes nothing) and the object it will return
QuotaDecision(apiKey, t) ==
  IF ~apiKey.quotaEnabled
  THEN [write |-> "none", nextReset |-> NullDate,
        result |-> [tracked |-> FALSE, allowed |-> TRUE, used |-> 0,
                    limit |-> 0, resetAt |-> NullDate]]
  ELSE IF ShouldReset(apiKey, t)
  THEN [write |-> "reset",
        nextReset |-> DateOf(NextReset(apiKey.quotaPeriod, t)),
        result |-> [tracked |-> TRUE, allowed |-> TRUE, used |-> 1,
                    limit |-> apiKey.quotaLimit,
                    resetAt |-> DateOf(NextReset(apiKey.quotaPeriod, t))]]
  ELSE IF QuotaExceeded(apiKey)
  THEN [write |-> "none", nextReset |-> NullDate,
        result |-> [tracked |-> TRUE, allowed |-> FALSE,
                    used |-> apiKey.quotaUsed, limit |-> apiKey.quotaLimit,
                    resetAt |-> apiKey.quotaResetAt]]
  ELSE [write |-> "increment", nextReset |-> NullDate,
        result |-> [tracked |-> TRUE, allowed |-> TRUE,
                    used |-> apiKey.quotaUsed + 1, limit |-> apiKey.quotaLimit,
                    resetAt |-> apiKey.quotaResetAt]]

\* prisma.apiKey.update: lines 82-85 (data: { quotaUsed: 1, quotaResetAt })
\* and lines 107-110 (data: { quotaUsed: { increment: 1 } }), applied by the
\* database to the row as it is when the update arrives
UpdatedKey(row, decision) ==
  CASE decision.write = "reset" ->
         [row EXCEPT !.quotaUsed = 1, !.quotaResetAt = decision.nextReset]
    [] decision.write = "increment" ->
         [row EXCEPT !.quotaUsed = @ + 1]
    [] OTHER -> row

\* a credential as the admin API creates it: no usage, no reset date
NewApiKey(id) ==
  [id |-> id, key |-> "", authMethod |-> "header", customHeader |-> "",
   enabled |-> TRUE, expiresAt |-> NullDate, permissions |-> {"*"},
   quotaEnabled |-> FALSE, quotaLimit |-> 10000, quotaPeriod |-> "month",
   quotaUsed |-> 0, quotaResetAt |-> NullDate]

IdleCall ==
  [pc |-> "idle", id |-> "", at |-> 0, apiKey |-> NewApiKey(""),
   decision |-> QuotaDecision(NewApiKey(""), 0)]

NoQuotaCall ==
  [made |-> FALSE, id |-> "", at |-> 0, found |-> NewApiKey(""),
   before |-> NewApiKey(""), decision |-> QuotaDecision(NewApiKey(""), 0)]

\* the quota tracker at rest, as the other specifications leave it
QuotaIdle ==
  /\ clock = 0
  /\ apiKeys = [id \in KeyIds |-> NewApiKey(id)]
  /\ qcall = [c \in CallIds |-> IdleCall]
  /\ qGranted = [id \in KeyIds |-> 0]
  /\ qLast = NoQuotaCall

----------------------------------------------------------------------------
(* services/codeRunner.js *)

\* the language names a route may carry; "ruby" stands for every name the
\* switch of executeCode does not list
Languages == {"javascript", "JS", "python", "bash", "ruby"}

\* language.toLowerCase()
ToLowerCase(language) == IF language = "JS" THEN "js" ELSE language

\* the adapter the switch of executeCode selects, "none" for the default
Runner(language) ==
  CASE ToLowerCase(language) \in {"javascript", "js"} -> "js"
    [] ToLowerCase(language) \in {"python", "py"} -> "python"
    [] ToLowerCase(language) \in {"bash", "sh", "shell"} -> "bash"
    [] OTHER -> "none"

\* a mutation of Enabled: the toggles are not consulted
Enabled_Always(e, runner) == TRUE

\* lines 338-340: process.env.ENABLE_<LANG> !== 'false'
Enabled(e, runner) ==
  CASE runner = "js" -> e.ENABLE_JAVASCRIPT # "false"
    [] runner = "python" -> e.ENABLE_PYTHON # "false"
    [] runner = "bash" -> e.ENABLE_BASH # "false"
    [] OTHER -> TRUE

\* A line of the child's stdout is one of
\*   "text"    a line without the sentinel token
\*   "result"  the sentinel line the harness prints: __RESULT__ + JSON
\*   "forged"  a line user code prints: __RESULT__ + JSON of its own
\*   "garbage" a line user code prints: __RESULT__ + text that is not JSON
Lines == {"text", "result", "forged", "garbage"}
SentinelLines == {"result", "forged", "garbage"}

\* the statuses user code passes to respond() / json()
UserStatuses == {200, 404}

RECURSIVE FirstSentinel(_)
\* stdout.match(/__RESULT__(.+)$/m): the first line holding the sentinel,
\* "none" when there is no such line
FirstSentinel(stdout) ==
  IF stdout = << >> THEN "none"
  ELSE IF Head(stdout) \in SentinelLines THEN Head(stdout)
  ELSE FirstSentinel(Tail(stdout))

\* a result object without the logs property
NoLogs == <<"undefined">>

RECURSIVE WithoutSentinel(_)
\* stdout.replace(/__RESULT__.+$/m, ''): stdout without its first sentinel
\* line
WithoutSentinel(stdout) ==
  IF stdout = << >> THEN << >>
  ELSE IF Head(stdout) \in SentinelLines THEN Tail(stdout)
  ELSE <<Head(stdout)>> \o WithoutSentinel(Tail(stdout))

\* the result objects; body names what the body is made of
Result(success, status, body) ==
  [success |-> success, status |-> status, body |-> body, logs |-> NoLogs]

\* lines 96-101: the parsed envelope with success, executionTime and logs
EnvelopeResult(status, body, stdout) ==
  [Result(TRUE, status, body) EXCEPT !.logs = WithoutSentinel(stdout)]

NoResult == Result(FALSE, 0, "")

\* a mutation of HarnessCloseResult: stderr is looked at before the sentinel
HarnessCloseResult_StderrFirst(stdout, stderr, status) ==
  LET m == FirstSentinel(stdout)
  IN  CASE stderr -> Result(FALSE, 500, "stderr")
        [] m = "result"  -> EnvelopeResult(status, "envelope", stdout)
        [] m = "forged"  -> EnvelopeResult(status, "forged envelope", stdout)
        [] m = "garbage" -> Result(FALSE, 500, "Erreur de parsing du resultat")
        [] OTHER -> Result(TRUE, 200, IF stdout # << >> THEN "stdout" ELSE "null")

\* the 'close' handler of runJavaScript (lines 88-124) and of runPython
\* (lines 200-234): the result it passes to resolve
HarnessCloseResult(stdout, stderr, status) ==
  LET m == FirstSentinel(stdout)
  IN  CASE m = "result"  -> EnvelopeResult(status, "envelope", stdout)
        [] m = "forged"  -> EnvelopeResult(status, "forged envelope", stdout)
        [] m = "garbage" -> Result(FALSE, 500, "Erreur de parsing du resultat")
        [] m = "none" /\ stderr -> Result(FALSE, 500, "stderr")
        [] OTHER -> Result(TRUE, 200, IF stdout # << >> THEN "stdout" ELSE "null")

\* the 'close' handler of runBash (lines 299-315)
BashCloseResult(stdout, stderr, exitCode) ==
  IF exitCode = "0" THEN Result(TRUE, 200, "stdout")
  ELSE Result(FALSE, 500, IF stderr THEN "stderr" ELSE "Exit code")

CloseResult(runner, stdout, stderr, exitCode, status) ==
  IF runner = "bash" THEN BashCloseResult(stdout, stderr, exitCode)
  ELSE HarnessCloseResult(stdout, stderr, status)

\* the 'error' handlers (lines 127-135, 237-245, 318-326)
ErrorResult(runner) ==
  Result(FALSE, 500, IF runner = "python" THEN "Python non disponible"
                     ELSE "error.message")

\* lines 345-347, 352-354, 360-362 and 365-370 of executeCode
DisabledResult == Result(FALSE, 503, "execution is disabled")
UnsupportedResult == Result(FALSE, 400, "Langage non supporte")

\* What the spawned program does, which the engine does not control:
\*   script       the lines it writes to stdout, in order
\*   stderr       whether it writes to stderr
\*   exit         its exit code when it ends by itself
\*   ends         whether it ends by itself (FALSE: it runs on for ever)
\*   ignoresTerm  whether it survives SIGTERM
\*   calls        the statuses its code passes to respond() / json(), in
\*                the order of the calls
\*   spawnFails   the interpreter cannot be started
\*   writeFails   writeFileSync of the harness throws
Scripts == UNION {[1..n -> Lines] : n \in 0..MaxLines}

CallSequences == UNION {[1..n -> UserStatuses] : n \in 0..MaxCalls}

\* let __response = { status: 200, body: null, headers: {} }
DefaultStatus == 200

\* respond(data, status, headers): __response = { status, body: data,
\* headers }, whatever __response was; json() calls respond()
respond(response, status) == status

RECURSIVE HarnessResponse(_, _)
\* the envelope the harness prints once the user code has run: the value
\* of __response after the calls
HarnessResponse(response, calls) ==
  IF calls = << >> THEN response
  ELSE HarnessResponse(respond(response, Head(calls)), Tail(calls))

Programs ==
  [script : Scripts, stderr : BOOLEAN, exit : {"0", "1"}, ends : BOOLEAN,
   ignoresTerm : BOOLEAN, calls : CallSequences, spawnFails : {FALSE},
   writeFails : {FALSE}]
  \cup
  [script : {<< >>}, stderr : {FALSE}, exit : {"0"}, ends : {TRUE},
   ignoresTerm : {FALSE}, calls : {<< >>}, spawnFails : BOOLEAN,
   writeFails : BOOLEAN]

NoExecution ==
  [pc |-> "idle", language |-> "", runner |-> "none",
   prog |-> [script |-> << >>, stderr |-> FALSE, exit |-> "0", ends |-> TRUE,
             ignoresTerm |-> FALSE, calls |-> << >>, spawnFails |-> FALSE,
             writeFails |-> FALSE],
   tempFile |-> FALSE, spawned |-> FALSE, child |-> "none",
   stdout |-> << >>, stderr |-> FALSE, exitCode |-> "",
   timer |-> "unset", sigterm |-> FALSE, errorEvent |-> "none",
   closeEvent |-> "none", timedOut |-> FALSE, result |-> NoResult]

\* the code runner at rest, as the other specifications leave it
ExecIdle ==
  /\ env = [ENABLE_JAVASCRIPT |-> "true", ENABLE_PYTHON |-> "true",
            ENABLE_BASH |-> "true"]
  /\ ex = NoExecution

----------------------------------------------------------------------------
(* routes/api.js and middleware/auth.js: the request pipeline *)

ReqIds == 1..NumReqs

\* A path is the sequence of its segments: "/users/42" is <<"users", "42">>,
\* "/users/" is <<"users", "">>.  A segment that starts with ':' is a
\* parameter.
ParamSegments == {":id", ":orderId", ":kind"}
StartsWithColon(segment) == segment \in ParamSegments

\* path.split('/').filter(Boolean)
Parts(path) == SelectSeq(path, LAMBDA segment : segment # "")

\* a mutation of matchPath: only the numbers of segments are compared
matchPath_LengthOnly(pattern, path) ==
  LET patternParts == Parts(pattern)
      pathParts    == Parts(path)
  IN  Len(patternParts) = Len(pathParts)

\* matchPath(pattern, path)
matchPath(pattern, path) ==
  LET patternParts == Parts(pattern)
      pathParts    == Parts(path)
  IN  /\ Len(patternParts) = Len(pathParts)
      /\ \A i \in 1..Len(patternParts) :
           StartsWithColon(patternParts[i]) \/ patternParts[i] = pathParts[i]

\* patternParts[i].slice(1)
ParamName(segment) ==
  CASE segment = ":id" -> "id"
    [] segment = ":orderId" -> "orderId"
    [] segment = ":kind" -> "kind"
    [] OTHER -> segment

\* extractParams(pattern, path): every parameter name of the pattern with
\* the path segment at the position of its last occurrence
extractParams(pattern, path) ==
  LET patternParts == Parts(pattern)
      pathParts    == Parts(path)
      at           == {i \in 1..Len(patternParts) :
                         StartsWithColon(patternParts[i])}
      last(name)   == CHOOSE i \in at :
                        /\ ParamName(patternParts[i]) = name
                        /\ \A j \in at :
                             ParamName(patternParts[j]) = name => j <= i
  IN  [name \in {ParamName(patternParts[i]) : i \in at} |->
         IF last(name) <= Len(pathParts) THEN pathParts[last(name)]
         ELSE "undefined"]

\* the id at the least of the positions `hits` of `order`, "" when there is
\* none: what findFirst returns, and what the scan returns first
FirstRoute(order, hits) ==
  IF hits = {} THEN ""
  ELSE order[CHOOSE i \in hits : \A j \in hits : i <= j]

\* a mutation of findMatchingRoute: the scan without the exact lookup
findMatchingRoute_ScanOnly(table, order, path, method) ==
  FirstRoute(order,
    {i \in 1..Len(order) :
       /\ table[order[i]].method = method
       /\ matchPath(table[order[i]].path, path)})

\* findMatchingRoute(prisma, path, method): the exact lookup, then the scan
\* of the routes of the method in storage order
findMatchingRoute(table, order, path, method) ==
  LET exact == FirstRoute(order,
                 {i \in 1..Len(order) :
                    /\ table[order[i]].path = path
                    /\ table[order[i]].method = method})
  IN  IF exact # "" THEN exact
      ELSE FirstRoute(order,
             {i \in 1..Len(order) :
                /\ table[order[i]].method = method
                /\ matchPath(table[order[i]].path, path)})

\* a mutation of RouteAnswer: the enabled flag is not consulted
RouteAnswer_IgnoresEnabled(table, id) ==
  IF id = "" THEN 404 ELSE 0

\* lines 37-49 of the handler: the status it answers with once the route
\* lookup has returned, 0 when the request goes on to authentication
RouteAnswer(table, id) ==
  IF id = "" THEN 404
  ELSE IF ~table[id].enabled THEN 503
  ELSE 0

\* a route with the defaults of the admin API's schema
NewRoute(id, path) ==
  [id |-> id, path |-> path, method |-> "GET", language |-> "javascript",
   authType |-> "none", enabled |-> TRUE, rateLimitEnabled |-> FALSE,
   rateLimitRequests |-> 100, rateLimitWindow |-> 60, rateLimitBy |-> "ip"]

\* the routes the pipeline is checked with: a public route limited per
\* address to one request less than there are requests, a protected route
\* limited per credential, a disabled route and a parameterized route
RouteTable ==
  [rOpen |-> [NewRoute("rOpen", <<"open">>) EXCEPT
                !.rateLimitEnabled = TRUE, !.rateLimitRequests = NumReqs - 1,
                !.rateLimitWindow = 1],
   rSecure |-> [NewRoute("rSecure", <<"secure">>) EXCEPT
                !.authType = "apikey", !.language = "python",
                !.rateLimitEnabled = TRUE, !.rateLimitRequests = 1,
                !.rateLimitWindow = 1, !.rateLimitBy = "apikey"],
   rOff |-> [NewRoute("rOff", <<"off">>) EXCEPT !.enabled = FALSE],
   rUser |-> [NewRoute("rUser", <<"users", ":id">>) EXCEPT
                !.language = "bash"]]

RouteOrder == <<"rOpen", "rSecure", "rOff", "rUser">>

\* the credentials the pipeline is checked with: k1 is valid for every route
\* and has a quota of one request a day, k2 is valid for another route only,
\* k3 has expired
Credentials ==
  [k1 |-> [NewApiKey("k1") EXCEPT !.key = "tok1", !.quotaEnabled = TRUE,
             !.quotaLimit = 1, !.quotaPeriod = "day"],
   k2 |-> [NewApiKey("k2") EXCEPT !.key = "tok2", !.authMethod = "bearer",
             !.permissions = {"rOpen"}],
   k3 |-> [NewApiKey("k3") EXCEPT !.key = "tok3", !.expiresAt = DateOf(0)]]

CredentialOrder == <<"k1", "k2", "k3">>

\* prisma.apiKey.findUnique({ where: { key } }): the id of the credential
\* with that token, "" when there is none
FindByKey(keys, token) ==
  IF \E id \in DOMAIN keys : keys[id].key = token
  THEN CHOOSE id \in DOMAIN keys : keys[id].key = token
  ELSE ""

\* a mutation of TryChannel: the authMethod of the credential is not compared
TryChannel_AnyMethod(keys, candidate, authMethod) ==
  IF candidate = "" THEN "" ELSE FindByKey(keys, candidate)

\* one attempt of apiAuth (lines 47-83): the credential found for the
\* candidate token if its authMethod is the one of the channel, else none
TryChannel(keys, candidate, authMethod) ==
  IF candidate = "" THEN ""
  ELSE LET id == FindByKey(keys, candidate)
       IN  IF id # "" /\ keys[id].authMethod = authMethod THEN id ELSE ""

\* lines 86-99: the first enabled 'custom' credential whose own header
\* carries its token
TryCustom(keys, order, request) ==
  LET hits == {i \in 1..Len(order) :
                 /\ keys[order[i]].authMethod = "custom"
                 /\ keys[order[i]].enabled
                 /\ keys[order[i]].customHeader # ""
                 /\ keys[order[i]].customHeader \in DOMAIN request.custom
                 /\ request.custom[keys[order[i]].customHeader]
                      = keys[order[i]].key}
  IN  IF hits = {} THEN ""
      ELSE order[CHOOSE i \in hits : \A j \in hits : i <= j]

\* lines 44-99 of apiAuth: header, then bearer, then query, then custom
FindCredential(keys, order, request) ==
  LET byHeader == TryChannel(keys, request.xApiKey, "header")
      byBearer == IF byHeader # "" THEN byHeader
                  ELSE TryChannel(keys, request.bearer, "bearer")
      byQuery  == IF byBearer # "" THEN byBearer
                  ELSE TryChannel(keys, request.query, "query")
  IN  IF byQuery # "" THEN byQuery ELSE TryCustom(keys, order, request)

\* `apiKey.expiresAt && new Date(apiKey.expiresAt) < new Date()`
Expired(apiKey, t) ==
  apiKey.expiresAt # NullDate /\ TimeOf(apiKey.expiresAt) < t

\* hasPermission(apiKey, routeId)
hasPermission(apiKey, routeId, t) ==
  /\ apiKey.enabled
  /\ ~Expired(apiKey, t)
  /\ \/ apiKey.permissions = {"*"}
     \/ routeId \in apiKey.permissions
     \/ "*" \in apiKey.permissions

\* a mutation of AuthStatus: the permission check comes first
AuthStatus_PermissionFirst(keys, id, routeId, t) ==
  IF id = "" THEN 401
  ELSE IF ~hasPermission(keys[id], routeId, t) THEN 403
  ELSE IF ~keys[id].enabled THEN 401
  ELSE IF Expired(keys[id], t) THEN 401
  ELSE 0

\* lines 101-131 of apiAuth: the status it replies with, 0 when the
\* credential goes on to the quota check
AuthStatus(keys, id, routeId, t) ==
  IF id = "" THEN 401
  ELSE IF ~keys[id].enabled THEN 401
  ELSE IF Expired(keys[id], t) THEN 401
  ELSE IF ~hasPermission(keys[id], routeId, t) THEN 403
  ELSE 0

\* isValidKeyFormat(key): the tokens generateApiKey mints are well formed
isValidKeyFormat(key) == key \in {"tok0", "tok1", "tok2", "tok3"}

\* extractApiKey(request) without a custom header: X-API-Key, then the
\* query parameter, then a well-formed Bearer token, else null
extractApiKey(request) ==
  IF request.xApiKey # "" THEN request.xApiKey
  ELSE IF request.query # "" THEN request.query
  ELSE IF request.bearer # "" /\ isValidKeyFormat(request.bearer)
  THEN request.bearer
  ELSE ""

\* the branches of the apiAuth that dispatches on the authType of the route
\* (services/codeRunner.js, lines 417-563): the status it replies with, 0
\* when the credential goes on to the quota check, and the credential
apiAuthByType(keys, route, request, t) ==
  LET key == CASE route.authType = "apikey" -> extractApiKey(request)
               [] route.authType = "bearer" -> request.bearer
               [] route.authType = "basic"  -> request.basic
               [] OTHER -> ""
      id  == FindByKey(keys, key)
  IN  IF route.authType \notin {"apikey", "bearer", "basic"}
      THEN [status |-> 500, id |-> ""]
      ELSE IF key = "" THEN [status |-> 401, id |-> ""]
      ELSE IF id = "" THEN [status |-> 401, id |-> ""]
      ELSE IF ~keys[id].enabled THEN [status |-> 401, id |-> id]
      ELSE IF route.authType = "apikey" /\ Expired(keys[id], t)
      THEN [status |-> 401, id |-> id]
      ELSE IF ~hasPermission(keys[id], route.id, t)
      THEN [status |-> 403, id |-> id]
      ELSE [status |-> 0, id |-> id]

\* StopsAfterAuth without the test: the handler goes on after a rejection
StopsAfterAuth_Never(sent) == FALSE

\* line 57 of the handler: `if (reply.sent) return;`
StopsAfterAuth(sent) == sent

\* lines 61-63: the rate-limit identifier
RateLimitIdentifier(route, request, apiKeyId, keys) ==
  IF route.rateLimitBy = "apikey" /\ apiKeyId # ""
  THEN keys[apiKeyId].key ELSE request.ip

\* `${routeId}:${identifier}` for an identifier that is an object and not
\* a string: String(object)
ObjectString == "[object Object]"

\* createRateLimitMiddleware, lines 108-113 of rateLimiter.js: the
\* identifier is request.apiKey itself, the record apiAuth attached
MiddlewareIdentifier(route, request, apiKeyId, keys) ==
  IF route.rateLimitBy = "apikey" /\ apiKeyId # ""
  THEN ObjectString ELSE request.ip

\* the requests the pipeline is checked with
NoCredential ==
  [xApiKey |-> "", bearer |-> "", query |-> "", basic |-> "",
   custom |-> << >>]

Request(path, credential) ==
  [method |-> "GET", path |-> path, ip |-> "ip1"] @@ credential

Requests ==
  {Request(<<"open">>, NoCredential),
   Request(<<"missing">>, NoCredential),
   Request(<<"off">>, NoCredential),
   Request(<<"users", "42">>, NoCredential),
   Request(<<"secure">>, NoCredential),
   Request(<<"secure">>, [NoCredential EXCEPT !.xApiKey = "tok1"]),
   Request(<<"secure">>, [NoCredential EXCEPT !.bearer = "tok2"]),
   Request(<<"secure">>, [NoCredential EXCEPT !.xApiKey = "tok3"])}

\* what executeCode can resolve with once it has spawned a process
SpawnedResults ==
  {Result(TRUE, status, "envelope") : status \in UserStatuses}
    \cup {Result(FALSE, 500, "stderr"), Result(TRUE, 200, "null")}

NoReply == [status |-> 0, by |-> "", headers |-> {}]

\* reply.status(status).send(...): the first send is the response
Send(reply, status, by) ==
  IF reply.status # 0 THEN reply
  ELSE [reply EXCEPT !.status = status, !.by = by]

\* reply.header(name, ...)
WithHeaders(reply, names) == [reply EXCEPT !.headers = @ \cup names]

\* logRequest, lines 219-223: a copy of the headers without authorization,
\* x-api-key and cookie
SafeHeaders(request) ==
  [xApiKey |-> "", bearer |-> "", basic |-> "", custom |-> request.custom]

\* logRequest, lines 225-238: the row given to prisma.requestLog.create;
\* request.url is the path with its query string
LogRecord(request) ==
  [url |-> [path |-> request.path, query |-> request.query],
   method |-> request.method, ip |-> request.ip,
   requestHeaders |-> SafeHeaders(request), requestBody |-> ""]

NoRequest ==
  [pc |-> "idle", request |-> Request(<< >>, NoCredential), route |-> "",
   found |-> "", auth |-> "", apiKey |-> "",
   quotaKey |-> NewApiKey(""), quota |-> QuotaDecision(NewApiKey(""), 0),
   limited |-> FALSE, rlKey |-> <<"", "">>,
   rl |-> UnlimitedResult(RateLimitConfig(DefaultRoute(""))),
   called |-> FALSE, spawned |-> FALSE, result |-> NoResult,
   logCalls |-> 0, logFailed |-> FALSE, logged |-> 0,
   record |-> LogRecord(Request(<< >>, NoCredential)), reply |-> NoReply]

\* the pipeline at rest, as the other specifications leave it
PipelineIdle == req = [r \in ReqIds |-> NoRequest]

\* The resolver is checked with tables of up to MaxRoutes routes, named in
\* the order of their registration, and with every storage order of them.
RouteNames == <<"rA", "rB", "rC", "rD">>
Methods == {"GET", "POST"}
RoutePaths ==
  {<<"users">>, <<"users", "me">>, <<"users", ":id">>, <<":kind", "me">>,
   <<"users", ":id", "orders", ":orderId">>}
RequestPaths ==
  {<<"users">>, <<"users", "me">>, <<"users", "42">>, <<"users", "me", "">>,
   <<"users", "42", "orders", "7">>, <<"posts">>}

RouteIdsOf(n) == {RouteNames[i] : i \in 1..n}

\* the tables of n routes
TablesOf(n) ==
  {[id \in RouteIdsOf(n) |->
      [NewRoute(id, shape[id].path) EXCEPT !.method = shape[id].method,
                                          !.enabled = shape[id].enabled]] :
     shape \in [RouteIdsOf(n) ->
                 [path : RoutePaths, method : Methods, enabled : BOOLEAN]]}

\* the orders in which storage may hand out n routes
OrdersOf(n) ==
  {order \in [1..n -> RouteIdsOf(n)] :
     \A i, j \in 1..n : order[i] = order[j] => i = j}

NoResolution ==
  [pc |-> "idle", order |-> << >>, path |-> << >>, method |-> "",
   found |-> "", status |-> 0, params |-> << >>]

ResolverIdle == resolution = NoResolution

----------------------------------------------------------------------------
(* routes/auth.js: POST /auth/login *)

LoginIds == 1..NumLogins

\* LOGIN_RATE_LIMIT = { requests: 5, window: 900 }
LoginRequests == 5
LoginWindow == 900

\* the client address of the attempts
ClientIp == "ip1"

\* { routeId: 'auth-login', ...LOGIN_RATE_LIMIT }; checkRateLimit takes
\* enabled = true by default
LoginConfig ==
  [routeId |-> "auth-login", requests |-> LoginRequests,
   window |-> LoginWindow, enabled |-> TRUE]

NoAttempt ==
  [pc |-> "idle", correct |-> FALSE, allowed |-> FALSE,
   compared |-> FALSE, status |-> 0, headers |-> {}]

\* history of the attempts of the client address: whether a window is open
\* (an attempt was made and neither the window has elapsed nor a login
\* succeeded since), when it started, the attempts made in it, and those
\* of them that were let through to the password comparison
NoWindow == [open |-> FALSE, start |-> 0, attempts |-> 0, admitted |-> 0]

NoLogin ==
  [configured |-> FALSE, attempt |-> [a \in LoginIds |-> NoAttempt],
   window |-> NoWindow]

----------------------------------------------------------------------------
(* services/routeCache.js *)

\* const CACHE_TTL = 60000
CacheTTL == 60000

\* generateCacheKey: `${method}:${path}`; methods hold no ':'
generateCacheKey(path, method) == <<method, path>>

\* a mutation of CacheHit: an entry is still served at its expiresAt
CacheHit_AtExpiry(entries, key, t) ==
  key \in DOMAIN entries /\ t <= entries[key].expiresAt

\* getCachedRoute: whether the key has an entry that has not expired
CacheHit(entries, key, t) ==
  key \in DOMAIN entries /\ t < entries[key].expiresAt

\* getCachedRoute on a miss: `if (cached) routeCache.delete(key)`
CacheAfterGet(entries, key, t) ==
  IF CacheHit(entries, key, t) THEN entries
  ELSE [k \in DOMAIN entries \ {key} |-> entries[k]]

\* setCachedRoute(path, method, route)
setCachedRoute(entries, key, route, t) ==
  [k \in DOMAIN entries \cup {key} |->
     IF k = key THEN [route |-> route, expiresAt |-> t + CacheTTL]
     ELSE entries[k]]

\* the setInterval callback: delete every entry with expiresAt < now
CacheAfterSweep(entries, t) ==
  [k \in {q \in DOMAIN entries : ~(entries[q].expiresAt < t)} |-> entries[k]]

\* no lookup through the route cache
NoCacheLookup ==
  [made |-> FALSE, path |-> << >>, method |-> "", hit |-> FALSE,
   found |-> FALSE, route |-> NewRoute("", << >>)]

\* let cacheStats = { hits: 0, misses: 0, lastInvalidation: null }
NoStats == [hits |-> 0, misses |-> 0, lastInvalidation |-> 0]

NoHistory == [calls |-> 0, latest |-> << >>]

\* getCachedRoute: cacheStats.hits++ or cacheStats.misses++
StatsAfterGet(stats, hit) ==
  IF hit THEN [stats EXCEPT !.hits = @ + 1]
  ELSE [stats EXCEPT !.misses = @ + 1]

\* invalidateRoute: routeCache.delete(key)
invalidateRoute(entries, key) ==
  [k \in DOMAIN entries \ {key} |-> entries[k]]

\* history: the latest setCachedRoute of the key
LatestAfterSet(latest, key, route, t) ==
  [k \in DOMAIN latest \cup {key} |->
     IF k = key THEN [route |-> route, at |-> t] ELSE latest[k]]

\* the cache at rest
CacheIdle ==
  /\ routeCache = [entries |-> << >>, lookup |-> NoCacheLookup]
  /\ cacheStats = NoStats
  /\ cacheHistory = NoHistory

\* the admin side at rest, as the other specifications leave it
AdminIdle ==
  /\ login = NoLogin
  /\ CacheIdle

----------------------------------------------------------------------------
(* Rate limiter on its own: sequential checks, the clock, the sweep and    *)
(* explicit resets                                                         *)

InitRL ==
  /\ now \in StartTimes
  /\ \E L \in 0..MaxLimit, W \in Windows, en \in BOOLEAN :
       routes = [id \in RouteIds |->
                   [DefaultRoute(id) EXCEPT !.rateLimitRequests = L,
                                            !.rateLimitWindow = W,
                                            !.rateLimitEnabled = en]]
  /\ store = << >>
  /\ rlRes = UnlimitedResult(RateLimitConfig(DefaultRoute("")))
  /\ rlCall = NoCall
  /\ rlRank = [k \in Keys |-> 0]
  /\ QuotaIdle
  /\ ExecIdle
  /\ PipelineIdle
  /\ ResolverIdle
  /\ AdminIdle
  /\ SweepIdle

Tick ==
  /\ \E d \in Deltas : now + d <= MaxNow /\ now' = now + d
  /\ UNCHANGED <<routes, store, rlRes, rlCall, rlRank, quotaVars, execVars, resolution, adminVars, unswept, req>>

CheckRateLimit ==
  \E identifier \in Identifiers, r \in RouteIds :
    LET config == RateLimitConfig(routes[r])
        key    == generateKey(identifier, r)
    IN  /\ ~NoLiveEntry(store, key, now) => store[key].count < MaxCount
        /\ store' = StoreAfterCheck(store, identifier, config, now)
        /\ rlRes' = checkRateLimit(store, identifier, config, now)
        /\ rlCall' = CallRecord(identifier, config, now)
        /\ rlRank' = [rlRank EXCEPT ![key] = RankOf(key, now)]
        /\ UNCHANGED <<now, routes, quotaVars, execVars, resolution, adminVars, unswept, req>>

ResetRateLimit ==
  /\ \E identifier \in Identifiers, r \in RouteIds :
       /\ generateKey(identifier, r) \in DOMAIN store
       /\ store' = StoreAfterReset(store, identifier, r)
  /\ UNCHANGED <<now, routes, rlRes, rlCall, rlRank, quotaVars, execVars, resolution, adminVars, unswept, req>>

Sweep ==
  /\ store' = StoreAfterSweep(store, now)
  /\ store' # store
  /\ UNCHANGED <<now, routes, rlRes, rlCall, rlRank, quotaVars, execVars, resolution, adminVars, unswept, req>>

NextRL == Tick \/ CheckRateLimit \/ ResetRateLimit \/ Sweep

SpecRL == InitRL /\ [][NextRL]_vars

----------------------------------------------------------------------------
(* Claims about the rate limiter *)

\* C3: the k-th consecutive check of a key that had no live entry returns
\* allowed = (k <= L) and remaining = max(0, L - k), for every limit L >= 0
C3_KthCheck ==
  (rlCall.made /\ rlCall.config.enabled) =>
     /\ rlRes.allowed = (rlCall.k <= rlCall.config.requests)
     /\ rlRes.remaining = Max(0, rlCall.config.requests - rlCall.k)
     /\ rlCall.config.requests = 3 =>
          /\ rlCall.k \in 1..3 => rlRes.allowed /\ rlRes.remaining = 3 - rlCall.k
          /\ rlCall.k = 4 => ~rlRes.allowed /\ rlRes.remaining = 0

\* the fourth check of a key with limit 3 has been rejected
C3_Witness ==
  /\ rlCall.made /\ rlCall.config.enabled
  /\ rlCall.config.requests = 3 /\ rlCall.k = 4
  /\ ~rlRes.allowed /\ rlRes.remaining = 0

\* C5: a check that arrives after the window of the key's entry has elapsed
\* is counted as the first of a new window: count = 1, allowed iff
\* limit >= 1, resetAt = now + window * 1000, whatever the old count was
C5_WindowElapsed ==
  (rlCall.made /\ rlCall.config.enabled /\ rlCall.hadEntry
     /\ rlCall.at > rlCall.oldResetAt
     /\ rlCall.key \in DOMAIN store) =>
     /\ store[rlCall.key].count = 1
     /\ store[rlCall.key].resetAt = rlCall.at + rlCall.config.window * 1000
     /\ rlRes.resetAt = rlCall.at + rlCall.config.window * 1000
     /\ rlRes.allowed = (rlCall.config.requests >= 1)

\* a key that was blocked in the old window has been allowed again
C5_Witness ==
  /\ rlCall.made /\ rlCall.config.enabled /\ rlCall.hadEntry
  /\ rlCall.at > rlCall.oldResetAt
  /\ rlCall.oldCount > rlCall.config.requests
  /\ rlCall.key \in DOMAIN store /\ store[rlCall.key].count = 1
  /\ rlRes.allowed

\* C32: the window is fixed: while the entry of a key is live no check
\* changes its resetAt, rejected checks included, which are still counted;
\* so a blocked client that keeps sending is rejected until the resetAt set
\* by the first check of the window and no longer: a check made after it
\* opens a new window and is allowed (when the limit is at least 1)
C32_FixedWindow ==
  /\ []((rlCall.made /\ rlCall.config.enabled) =>
          /\ rlCall.live =>
               /\ rlRes.resetAt = rlCall.oldResetAt
               /\ rlCall.key \in DOMAIN store =>
                    store[rlCall.key].resetAt = rlCall.oldResetAt
          /\ ~rlRes.allowed => rlCall.at <= rlRes.resetAt
          /\ (rlCall.hadEntry /\ rlCall.at > rlCall.oldResetAt
                /\ rlCall.config.requests >= 1) => rlRes.allowed)
  /\ [][\A key \in DOMAIN store \cap DOMAIN store' :
          store[key].resetAt >= now =>
            /\ store'[key].resetAt = store[key].resetAt
            /\ store'[key] # store[key] =>
                 store'[key].count = store[key].count + 1]_vars

\* a client that was already blocked sent again within the window: the
\* check was rejected and counted, and the end of the window did not move
C32_Witness ==
  /\ rlCall.made /\ rlCall.config.enabled /\ rlCall.live
  /\ rlCall.config.requests >= 1
  /\ rlCall.oldCount > rlCall.config.requests
  /\ ~rlRes.allowed
  /\ rlCall.key \in DOMAIN store
  /\ store[rlCall.key].count = rlCall.oldCount + 1
  /\ store[rlCall.key].resetAt = rlCall.oldResetAt

\* C34: a rejected check reports a live entry (resetAt is not before now)
\* and retryAfter = ceil((resetAt - now) / 1000), which is at least 1 and
\* at most the window in seconds
C34_RetryAfterRange ==
  (rlCall.made /\ rlCall.config.enabled /\ ~rlRes.allowed) =>
     /\ rlRes.resetAt >= rlCall.at
     /\ rlRes.hasRetry
     /\ rlRes.retryAfter = Ceil(rlRes.resetAt - rlCall.at, 1000)
     /\ rlRes.retryAfter >= 1
     /\ rlRes.retryAfter <= rlCall.config.window

----------------------------------------------------------------------------
(* The rate limiter next to one that is never swept: both are given the   *)
(* same checks and resets at the same times                               *)

TwinCheck ==
  \E identifier \in Identifiers, r \in RouteIds :
    LET config == RateLimitConfig(routes[r])
        key    == generateKey(identifier, r)
    IN  /\ ~NoLiveEntry(unswept.store, key, now)
             => unswept.store[key].count < MaxCount
        /\ store' = StoreAfterCheck(store, identifier, config, now)
        /\ rlRes' = checkRateLimit(store, identifier, config, now)
        /\ rlCall' = CallRecord(identifier, config, now)
        /\ rlRank' = [rlRank EXCEPT ![key] = RankOf(key, now)]
        /\ unswept' =
             [store |-> StoreAfterCheck(unswept.store, identifier, config, now),
              hadEntry |-> key \in DOMAIN unswept.store,
              res |-> checkRateLimit(unswept.store, identifier, config, now)]
        /\ UNCHANGED <<now, routes, quotaVars, execVars, resolution,
                       adminVars, req>>

TwinReset ==
  /\ \E identifier \in Identifiers, r \in RouteIds :
       /\ generateKey(identifier, r) \in DOMAIN unswept.store
       /\ store' = StoreAfterReset(store, identifier, r)
       /\ unswept' = [unswept EXCEPT
                        !.store = StoreAfterReset(@, identifier, r)]
  /\ UNCHANGED <<now, routes, rlRes, rlCall, rlRank, quotaVars, execVars,
                 resolution, adminVars, req>>

NextSweep == Tick \/ TwinCheck \/ TwinReset \/ Sweep

SpecSweep == InitRL /\ [][NextSweep]_vars

\* C33: the sweep is transparent: it deletes only entries that
\* checkRateLimit would treat as expired, and every check returns the same
\* allowed, remaining, resetAt and retryAfter as in the run of the same
\* checks and resets in which the sweep never ran
C33_SweepTransparent ==
  /\ [](/\ rlRes.allowed = unswept.res.allowed
        /\ rlRes.remaining = unswept.res.remaining
        /\ rlRes.resetAt = unswept.res.resetAt
        /\ rlRes.hasRetry = unswept.res.hasRetry
        /\ rlRes.retryAfter = unswept.res.retryAfter)
  /\ [][(store' # store /\ unswept' = unswept) =>
          /\ \A key \in DOMAIN store \ DOMAIN store' :
               store[key].resetAt < now
          /\ \A key \in DOMAIN store' :
               key \in DOMAIN store /\ store'[key] = store[key]]_vars

\* a check of a key whose entry the sweep had deleted, and which the
\* limiter that is never swept still held, was allowed by both as the
\* first of a new window, while the entry of another key is still swept
C33_Witness ==
  /\ rlCall.made /\ rlCall.config.enabled
  /\ ~rlCall.hadEntry /\ unswept.hadEntry
  /\ DOMAIN store # DOMAIN unswept.store
  /\ rlRes = unswept.res
  /\ rlRes.allowed /\ rlRes.remaining = rlCall.config.requests - 1

----------------------------------------------------------------------------
(* The quota tracker on its own *)

InitQuota ==
  /\ RateLimiterIdle
  /\ routes = << >>
  /\ clock \in StartClocks
  /\ \E L \in 0..MaxQuota, p \in Periods, en \in BOOLEAN :
       apiKeys = [id \in KeyIds |->
                    [NewApiKey(id) EXCEPT !.quotaEnabled = en,
                                          !.quotaLimit = L,
                                          !.quotaPeriod = p]]
  /\ qcall = [c \in CallIds |-> IdleCall]
  /\ qGranted = [id \in KeyIds |-> 0]
  /\ qLast = NoQuotaCall
  /\ ExecIdle
  /\ PipelineIdle
  /\ ResolverIdle
  /\ AdminIdle
  /\ SweepIdle

ClockTick ==
  /\ \E d \in ClockDeltas : clock + d <= MaxClock /\ clock' = clock + d
  /\ UNCHANGED <<rlVars, execVars, resolution, adminVars, unswept, req, apiKeys, qcall, qGranted, qLast>>

\* line 49: the database answers findUnique with the row as it is now
QuotaFind(c) ==
  /\ qcall[c].pc = "idle"
  /\ \E id \in KeyIds :
       qcall' = [qcall EXCEPT ![c] =
                   [IdleCall EXCEPT !.pc = "found", !.id = id,
                                    !.apiKey = apiKeys[id]]]
  /\ UNCHANGED <<rlVars, execVars, resolution, adminVars, unswept, req, clock, apiKeys, qGranted, qLast>>

\* the calls of the period current at time t that were allowed, once one
\* more call decided at time t is allowed: the call opens a new period when
\* the stored reset date is missing or not after t
GrantedAfter(id, t) ==
  IF apiKeys[id].quotaResetAt = NullDate
       \/ TimeOf(apiKeys[id].quotaResetAt) <= t
  THEN 1 ELSE qGranted[id] + 1

\* lines 51-104: the call resumes with the row, reads the clock and decides;
\* it returns at once unless it has an update to issue
QuotaDecide(c) ==
  /\ qcall[c].pc = "found"
  /\ LET d == QuotaDecision(qcall[c].apiKey, clock)
     IN  IF d.write = "none"
         THEN /\ qcall' = [qcall EXCEPT ![c] = IdleCall]
              /\ qLast' = [made |-> TRUE, id |-> qcall[c].id, at |-> clock,
                           found |-> qcall[c].apiKey,
                           before |-> apiKeys[qcall[c].id], decision |-> d]
         ELSE /\ qcall' = [qcall EXCEPT ![c].pc = "update", ![c].at = clock,
                                        ![c].decision = d]
              /\ UNCHANGED qLast
  /\ UNCHANGED <<rlVars, execVars, resolution, adminVars, unswept, req, clock, apiKeys, qGranted>>

\* lines 82-92 and 107-117: the database applies the update and the call
\* returns allowed=true
QuotaUpdate(c) ==
  /\ qcall[c].pc = "update"
  /\ LET id == qcall[c].id
     IN  /\ apiKeys' = [apiKeys EXCEPT ![id] = UpdatedKey(@, qcall[c].decision)]
         /\ qGranted' = [qGranted EXCEPT ![id] = GrantedAfter(id, qcall[c].at)]
         /\ qLast' = [made |-> TRUE, id |-> id, at |-> qcall[c].at,
                      found |-> qcall[c].apiKey, before |-> apiKeys[id],
                      decision |-> qcall[c].decision]
  /\ qcall' = [qcall EXCEPT ![c] = IdleCall]
  /\ UNCHANGED <<rlVars, execVars, resolution, adminVars, unswept, req, clock>>

\* a call starts only when no other call is under way
QuotaFindAlone(c) ==
  /\ \A o \in CallIds : qcall[o].pc = "idle"
  /\ QuotaFind(c)

NextQuota ==
  \/ ClockTick
  \/ \E c \in CallIds : QuotaFind(c)
  \/ \E c \in CallIds : QuotaDecide(c)
  \/ \E c \in CallIds : QuotaUpdate(c)

\* concurrent calls: any interleaving at the awaits
SpecQuota == InitQuota /\ [][NextQuota]_vars

NextQuotaSeq ==
  \/ ClockTick
  \/ \E c \in CallIds : QuotaFindAlone(c)
  \/ \E c \in CallIds : QuotaDecide(c)
  \/ \E c \in CallIds : QuotaUpdate(c)

\* sequential calls: each call returns before the next starts
SpecQuotaSeq == InitQuota /\ [][NextQuotaSeq]_vars

----------------------------------------------------------------------------
(* Claims about the quota tracker *)

\* the latest call that returned ran on a quota-enabled credential
QuotaCallReturned == qLast.made /\ qLast.found.quotaEnabled

\* C1: under any interleaving of concurrent checkAndUpdateQuota calls on a
\* quota-enabled credential whose reset time is in the future (no call is
\* on the reset path, the usage at the start is within the limit), the
\* stored quotaUsed never exceeds quotaLimit
C1_QuotaNeverExceeded ==
  \A id \in KeyIds :
    (/\ apiKeys[id].quotaEnabled
     /\ apiKeys[id].quotaLimit >= 1
     /\ apiKeys[id].quotaResetAt # NullDate
     /\ clock < TimeOf(apiKeys[id].quotaResetAt)
     /\ \A c \in CallIds :
          (qcall[c].pc = "update" /\ qcall[c].id = id)
             => qcall[c].decision.write = "increment")
    => apiKeys[id].quotaUsed <= apiKeys[id].quotaLimit

\* C6: with the reset time in the future, a sequential call is allowed
\* while stored used < limit, increments stored used by exactly one and
\* reports used = previous + 1; a call made once used >= limit is rejected
\* and leaves used and resetAt unchanged
C6_SequentialQuota ==
  (/\ QuotaCallReturned
   /\ qLast.found.quotaResetAt # NullDate
   /\ qLast.at < TimeOf(qLast.found.quotaResetAt)) =>
     LET row == apiKeys[qLast.id]
         res == qLast.decision.result
     IN  IF qLast.before.quotaUsed < qLast.before.quotaLimit
         THEN /\ res.allowed
              /\ res.used = qLast.before.quotaUsed + 1
              /\ row.quotaUsed = qLast.before.quotaUsed + 1
              /\ row.quotaUsed <= row.quotaLimit
              /\ row.quotaResetAt = qLast.before.quotaResetAt
         ELSE /\ ~res.allowed
              /\ row.quotaUsed = qLast.before.quotaUsed
              /\ row.quotaResetAt = qLast.before.quotaResetAt

\* with limit 2 the third call of the period has been rejected at used = 2
C6_Witness ==
  /\ QuotaCallReturned
  /\ qLast.found.quotaResetAt # NullDate
  /\ qLast.at < TimeOf(qLast.found.quotaResetAt)
  /\ qLast.found.quotaLimit = 2
  /\ ~qLast.decision.result.allowed
  /\ apiKeys[qLast.id].quotaUsed = 2
  /\ qGranted[qLast.id] = 2

\* C7: a call made when no reset date is recorded, or at or after the
\* recorded one, is allowed, sets stored used to 1 and stores a reset date
\* strictly later than the call: a day later, a week later, or midnight of
\* the same day of the next month
C7_ResetPath ==
  (/\ QuotaCallReturned
   /\ \/ qLast.found.quotaResetAt = NullDate
      \/ qLast.at >= TimeOf(qLast.found.quotaResetAt)) =>
     LET row == apiKeys[qLast.id]
         t   == qLast.at
     IN  /\ qLast.decision.result.allowed
         /\ qLast.decision.result.used = 1
         /\ row.quotaUsed = 1
         /\ row.quotaResetAt # NullDate
         /\ TimeOf(row.quotaResetAt) > t
         /\ qLast.decision.result.resetAt = row.quotaResetAt
         /\ row.quotaPeriod = "day" => TimeOf(row.quotaResetAt) = t + 24
         /\ row.quotaPeriod = "week" => TimeOf(row.quotaResetAt) = t + 7 * 24
         /\ row.quotaPeriod = "month" =>
              /\ TimeOf(row.quotaResetAt) % 24 = 0
              /\ GetDate(t) <= DaysOfMonth(GetMonth(t) + 1) =>
                   /\ GetMonth(TimeOf(row.quotaResetAt)) = GetMonth(t) + 1
                   /\ GetDate(TimeOf(row.quotaResetAt)) = GetDate(t)

\* a credential that had used up its quota has been allowed again by a
\* check made exactly at its reset date
C7_Witness ==
  /\ QuotaCallReturned
  /\ qLast.found.quotaResetAt # NullDate
  /\ qLast.at = TimeOf(qLast.found.quotaResetAt)
  /\ qLast.found.quotaLimit >= 1
  /\ qLast.found.quotaUsed >= qLast.found.quotaLimit
  /\ qLast.decision.result.allowed
  /\ apiKeys[qLast.id].quotaUsed = 1

\* C35: in sequential execution the calls of one quota period that are
\* allowed for a quota-enabled credential never number more than its
\* limit, for every limit >= 0, the call that takes the reset path included
C35_PeriodWithinLimit ==
  \A id \in KeyIds :
    apiKeys[id].quotaEnabled => qGranted[id] <= apiKeys[id].quotaLimit

\* C8: once all concurrent calls have finished, the stored quotaUsed equals
\* the number of calls of the current period that returned allowed=true
C8_EveryGrantCounted ==
  (\A c \in CallIds : qcall[c].pc = "idle") =>
     \A id \in KeyIds :
       apiKeys[id].quotaEnabled => apiKeys[id].quotaUsed = qGranted[id]

----------------------------------------------------------------------------
(* The code runner on its own *)

Toggles == {"true", "false"}

InitExec ==
  /\ RateLimiterIdle
  /\ routes = << >>
  /\ QuotaIdle
  /\ env \in [ENABLE_JAVASCRIPT : Toggles, ENABLE_PYTHON : Toggles,
              ENABLE_BASH : Toggles]
  /\ ex = NoExecution
  /\ PipelineIdle
  /\ ResolverIdle
  /\ AdminIdle
  /\ SweepIdle

\* executeCode(language, code, context, timeout) up to its first await:
\* the switch, then the adapter's promise body (harness file written,
\* process spawned, handlers attached, kill timer armed)
ExecuteCode ==
  /\ ex.pc = "idle"
  /\ \E language \in Languages, prog \in Programs :
       LET runner == Runner(language)
           call   == [NoExecution EXCEPT !.language = language,
                                         !.runner = runner, !.prog = prog]
       IN  ex' =
             IF runner = "none"
             THEN [call EXCEPT !.pc = "resolved", !.result = UnsupportedResult]
             ELSE IF ~Enabled(env, runner)
             THEN [call EXCEPT !.pc = "resolved", !.result = DisabledResult]
             ELSE IF prog.writeFails
             THEN [call EXCEPT !.pc = "rejected"]
             ELSE [call EXCEPT !.pc = "pending", !.tempFile = TRUE,
                               !.spawned = TRUE,
                               !.child = IF prog.spawnFails THEN "failed"
                                         ELSE "running",
                               !.errorEvent = IF prog.spawnFails THEN "pending"
                                              ELSE "none",
                               !.timer = "armed"]
  /\ UNCHANGED <<rlVars, routes, quotaVars, env, req, resolution, adminVars, unswept>>

\* the child writes its next line; the 'data' handler appends it to stdout
ChildWrite ==
  /\ ex.child = "running"
  /\ Len(ex.stdout) < Len(ex.prog.script)
  /\ ex' = [ex EXCEPT !.stdout = Append(@, ex.prog.script[Len(@) + 1]),
                      !.stderr = ex.prog.stderr]
  /\ UNCHANGED <<rlVars, routes, quotaVars, env, req, resolution, adminVars, unswept>>

\* the child ends by itself after writing all its output
ChildExit ==
  /\ ex.child = "running"
  /\ ex.prog.ends
  /\ Len(ex.stdout) = Len(ex.prog.script)
  /\ ex' = [ex EXCEPT !.child = "exited", !.exitCode = ex.prog.exit,
                      !.stderr = ex.prog.stderr, !.closeEvent = "pending"]
  /\ UNCHANGED <<rlVars, routes, quotaVars, env, req, resolution, adminVars, unswept>>

\* lines 138-140: the timer fires and calls child.kill('SIGTERM'); the
\* timer is never cleared, so it also fires after the child has ended
KillTimer ==
  /\ ex.timer = "armed"
  /\ ex' = [ex EXCEPT !.timer = "fired",
                      !.sigterm = (ex.child = "running"),
                      !.timedOut = (ex.child = "running"
                                      /\ FirstSentinel(ex.stdout) = "none")]
  /\ UNCHANGED <<rlVars, routes, quotaVars, env, req, resolution, adminVars, unswept>>

\* SIGTERM ends a child that does not ignore it: exit code null
ChildKilled ==
  /\ ex.child = "running"
  /\ ex.sigterm
  /\ ~ex.prog.ignoresTerm
  /\ ex' = [ex EXCEPT !.child = "exited", !.exitCode = "null",
                      !.closeEvent = "pending"]
  /\ UNCHANGED <<rlVars, routes, quotaVars, env, req, resolution, adminVars, unswept>>

\* a mutation of Unlinked: the handler leaves the file in place
Unlinked_Kept(e) == e

\* try { unlinkSync(tempFile); } catch (e) {}: the first statement of the
\* 'close' and of the 'error' handler of every adapter
Unlinked(e) == [e EXCEPT !.tempFile = FALSE]

\* a mutation of Resolve: a later resolve replaces the value
Resolve_Overwrites(e, value) == [e EXCEPT !.pc = "resolved", !.result = value]

\* resolve(value) settles the promise unless it is settled already
Resolve(e, value) ==
  IF e.pc = "pending" THEN [e EXCEPT !.pc = "resolved", !.result = value]
  ELSE e

\* child.on('close'): unlink the harness file, build the result, resolve
OnClose ==
  /\ ex.closeEvent = "pending"
  /\ ex' = Resolve(Unlinked([ex EXCEPT !.closeEvent = "done"]),
                   CloseResult(ex.runner, ex.stdout, ex.stderr, ex.exitCode,
                               HarnessResponse(DefaultStatus,
                                               ex.prog.calls)))
  /\ UNCHANGED <<rlVars, routes, quotaVars, env, req, resolution, adminVars, unswept>>

\* child.on('error'): the interpreter could not be started; Node emits
\* 'close' after it
OnError ==
  /\ ex.errorEvent = "pending"
  /\ ex' = Resolve(Unlinked([ex EXCEPT !.errorEvent = "done",
                                       !.exitCode = "errno",
                                       !.closeEvent = "pending"]),
                   ErrorResult(ex.runner))
  /\ UNCHANGED <<rlVars, routes, quotaVars, env, req, resolution, adminVars, unswept>>

NextExec ==
  \/ ExecuteCode
  \/ ChildWrite
  \/ ChildExit
  \/ KillTimer
  \/ ChildKilled
  \/ OnClose
  \/ OnError

SpecExec == InitExec /\ [][NextExec]_vars

\* The event loop runs every callback that is due; a child that can end
\* or is killed does end.  Nothing makes a child end that neither ends by
\* itself nor dies of SIGTERM.
FairSpecExec ==
  /\ SpecExec
  /\ WF_vars(ChildWrite) /\ WF_vars(ChildExit) /\ WF_vars(KillTimer)
  /\ WF_vars(ChildKilled) /\ WF_vars(OnClose) /\ WF_vars(OnError)

----------------------------------------------------------------------------
(* Claims about the code runner *)

\* C9: when the timeout elapses before the child has produced a result,
\* the child is sent SIGTERM and executeCode resolves with success=false,
\* status 500 and a body that names the timeout; it never resolves as a
\* 200 success with an empty or null body
C9_TimeoutIsFailure ==
  (ex.timedOut /\ ex.pc = "resolved") =>
     /\ ex.sigterm
     /\ ~ex.result.success
     /\ ex.result.status = 500
     /\ ex.result.body = "timeout"
     /\ ~(ex.result.status = 200 /\ ex.result.body \in {"null", "stdout"})

\* C10: every executeCode call eventually settles, also when the child
\* does not exit in response to SIGTERM
C10_AlwaysResolves ==
  (ex.pc = "pending") ~> (ex.pc \in {"resolved", "rejected"})

ClosedHarness ==
  /\ ex.pc = "resolved" /\ ex.runner \in {"js", "python"}
  /\ ex.closeEvent = "done" /\ ex.errorEvent = "none"

\* C12: after the child of a harness adapter closes, the result is fixed by
\* (stdout, stderr) in this order: a sentinel line with a JSON payload gives
\* that envelope with success=true and logs = stdout without that line; a
\* sentinel line whose payload is not JSON gives a 500 parse failure; no
\* sentinel and a non-empty stderr gives a 500 with the stderr text;
\* otherwise a 200 with the trimmed stdout or null.  With a sentinel line,
\* stderr and the exit code do not matter.
C12_ResultPriority ==
  ClosedHarness =>
    LET out == ex.stdout
        S   == {i \in 1..Len(out) : out[i] \in SentinelLines}
        k   == CHOOSE i \in S : \A j \in S : i <= j
        r   == ex.result
    IN  IF S # {}
        THEN IF out[k] \in {"result", "forged"}
             THEN /\ r.success
                  /\ r.status = HarnessResponse(DefaultStatus, ex.prog.calls)
                  /\ r.body = (IF out[k] = "result" THEN "envelope"
                                ELSE "forged envelope")
                  /\ Len(r.logs) = Len(out) - 1
                  /\ \A i \in 1..Len(r.logs) :
                       r.logs[i] = out[IF i < k THEN i ELSE i + 1]
             ELSE /\ ~r.success /\ r.status = 500
                  /\ r.body = "Erreur de parsing du resultat"
        ELSE IF ex.stderr
        THEN ~r.success /\ r.status = 500 /\ r.body = "stderr"
        ELSE /\ r.success /\ r.status = 200
             /\ r.body = (IF out = << >> THEN "null" ELSE "stdout")

\* the harness printed its envelope after a line of text, the child also
\* wrote to stderr and ended with a non-zero exit code
C12_Witness ==
  /\ ClosedHarness /\ ex.stderr /\ ex.exitCode = "1"
  /\ ex.stdout = <<"text", "result">>
  /\ ex.result.success /\ ex.result.logs = <<"text">>

\* the toggle of the language of the call, "" for an unsupported name
ToggleOf(language) ==
  CASE language \in {"javascript", "JS"} -> env.ENABLE_JAVASCRIPT
    [] language = "python" -> env.ENABLE_PYTHON
    [] language = "bash" -> env.ENABLE_BASH
    [] OTHER -> ""

\* C13: a language name outside the supported set is answered 400 without
\* a harness file or a process, whatever the toggles are; a supported
\* language whose toggle is 'false' is answered 503 without a process; a
\* process is spawned only for a supported and enabled language
C13_LanguageGate ==
  (ex.pc # "idle") =>
    /\ (ToggleOf(ex.language) = "") =>
          /\ ex.pc = "resolved" /\ ex.result.status = 400
          /\ ~ex.result.success /\ ~ex.spawned /\ ~ex.tempFile
    /\ (ToggleOf(ex.language) = "false") =>
          /\ ex.pc = "resolved" /\ ex.result.status = 503
          /\ ~ex.result.success /\ ~ex.spawned /\ ~ex.tempFile
    /\ ex.spawned => ToggleOf(ex.language) \notin {"", "false"}

\* a call for a supported language that is switched off was answered
C13_Witness ==
  /\ ex.pc = "resolved" /\ ex.language = "python"
  /\ env.ENABLE_PYTHON = "false" /\ env.ENABLE_JAVASCRIPT = "true"
  /\ ex.result.status = 503 /\ ~ex.spawned

\* C14: when user code calls respond / json several times in one run, the
\* envelope on the harness's sentinel line is the one set by the first
\* call; the later calls change nothing
C14_FirstRespondWins ==
  (/\ ClosedHarness
   /\ FirstSentinel(ex.stdout) = "result"
   /\ ex.prog.calls # << >>)
  => ex.result.status = ex.prog.calls[1]

\* C29: executeCode never throws and never rejects: every failure of an
\* execution (the harness file cannot be written, the interpreter is
\* missing, a non-zero exit, a killed process, malformed output) is
\* delivered as a resolved result with a numeric status
C29_NeverRejects ==
  /\ ex.pc # "rejected"
  /\ ex.pc = "resolved" =>
       ex.result.status \in UserStatuses \cup {400, 500, 503}

\* C36: an execution whose process was spawned delivers exactly one
\* result, that of the first of the child's 'close' and 'error' events to
\* be handled; the later event of the other kind and the kill timer firing
\* after the process has ended leave the delivered result as it is and
\* raise nothing
C36_OneResult ==
  /\ [](/\ ex.pc = "pending" =>
             ex.closeEvent # "done" /\ ex.errorEvent # "done"
        /\ (ex.pc = "resolved" /\ ex.spawned) =>
             ex.result =
               IF ex.errorEvent = "done" THEN ErrorResult(ex.runner)
               ELSE CloseResult(ex.runner, ex.stdout, ex.stderr, ex.exitCode,
                                HarnessResponse(DefaultStatus, ex.prog.calls))
        /\ ex.spawned => ex.pc # "rejected")
  /\ [][ex.pc = "resolved" =>
          ex'.pc = "resolved" /\ ex'.result = ex.result]_vars

\* the interpreter could not be started: 'error' delivered the result,
\* then 'close' was handled and the kill timer fired, and the result is
\* still that of 'error'
C36_Witness ==
  /\ ex.pc = "resolved" /\ ex.spawned
  /\ ex.errorEvent = "done" /\ ex.closeEvent = "done"
  /\ ex.timer = "fired"
  /\ ex.result = ErrorResult(ex.runner)
  /\ ex.result # CloseResult(ex.runner, ex.stdout, ex.stderr, ex.exitCode,
                             HarnessResponse(DefaultStatus, ex.prog.calls))

\* C37: text printed by user code cannot replace the envelope: when stdout
\* holds a line that starts with the sentinel, printed by user code, and
\* after it the sentinel line of the harness, the result is the envelope of
\* the harness (set through respond / json, or the default)
C37_EnvelopeNotForged ==
  (/\ ex.pc = "resolved" /\ ex.runner \in {"js", "python"}
   /\ ex.closeEvent = "done" /\ ex.errorEvent = "none"
   /\ \E i, j \in DOMAIN ex.stdout :
        i < j /\ ex.stdout[i] = "forged" /\ ex.stdout[j] = "result")
  => /\ ex.result.body = "envelope"
     /\ ex.result.status = HarnessResponse(DefaultStatus, ex.prog.calls)

----------------------------------------------------------------------------
(* The request pipeline: concurrent requests, interleaved at their awaits *)

InitPipe ==
  /\ now \in StartTimes
  /\ routes = RouteTable
  /\ store = << >>
  /\ rlRes = UnlimitedResult(RateLimitConfig(DefaultRoute("")))
  /\ rlCall = NoCall
  /\ rlRank = [k \in Keys |-> 0]
  /\ clock \in StartClocks
  /\ apiKeys = Credentials
  /\ qcall = [c \in CallIds |-> IdleCall]
  /\ qGranted = [id \in DOMAIN Credentials |-> 0]
  /\ qLast = NoQuotaCall
  /\ ExecIdle
  /\ PipelineIdle
  /\ ResolverIdle
  /\ AdminIdle
  /\ SweepIdle

PipeUnchanged == UNCHANGED <<now, routes, rlRes, rlCall, rlRank, clock, qcall,
                             qGranted, qLast, execVars, resolution,
                             adminVars, unswept>>

\* a request arrives
Receive(r) ==
  /\ req[r].pc = "idle"
  /\ \E request \in Requests :
       req' = [req EXCEPT ![r] = [NoRequest EXCEPT !.pc = "resolve",
                                                   !.request = request]]
  /\ UNCHANGED <<store, apiKeys>>
  /\ PipeUnchanged

\* lines 35-52: route lookup, 404 and 503
ResolveRoute(r) ==
  /\ req[r].pc = "resolve"
  /\ LET id == findMatchingRoute(routes, RouteOrder, req[r].request.path,
                                 req[r].request.method)
         status == RouteAnswer(routes, id)
     IN  req' = [req EXCEPT ![r] =
           IF status # 0
           THEN [@ EXCEPT !.pc = "done", !.route = id,
                          !.reply = Send(@, status, "route")]
           ELSE [@ EXCEPT !.pc = "auth", !.route = id]]
  /\ UNCHANGED <<store, apiKeys>>
  /\ PipeUnchanged

\* apiAuth up to the quota check (lines 31-131), and line 57 of the handler
Authenticate(r) ==
  /\ req[r].pc = "auth"
  /\ LET route  == routes[req[r].route]
         id     == FindCredential(apiKeys, CredentialOrder, req[r].request)
         status == AuthStatus(apiKeys, id, route.id, clock)
     IN  req' = [req EXCEPT ![r] =
           IF route.authType = "none"
           THEN [@ EXCEPT !.auth = "public",
                          !.pc = IF StopsAfterAuth(FALSE) THEN "done"
                                 ELSE "rate"]
           ELSE IF status # 0
           THEN [@ EXCEPT !.auth = "denied",
                          !.reply = Send(@, status, "auth"),
                          !.pc = IF StopsAfterAuth(TRUE) THEN "done"
                                 ELSE "rate"]
           ELSE [@ EXCEPT !.found = id, !.pc = "quotaFind"]]
  /\ UNCHANGED <<store, apiKeys>>
  /\ PipeUnchanged

\* checkAndUpdateQuota, line 49: the row as the database has it now
QuotaFindP(r) ==
  /\ req[r].pc = "quotaFind"
  /\ req' = [req EXCEPT ![r].quotaKey = apiKeys[req[r].found],
                        ![r].pc = "quotaDecide"]
  /\ UNCHANGED <<store, apiKeys>>
  /\ PipeUnchanged

\* checkAndUpdateQuota, lines 51-104, and lines 135-147 of apiAuth when the
\* call returns without an update
QuotaDecideP(r) ==
  /\ req[r].pc = "quotaDecide"
  /\ LET d == QuotaDecision(req[r].quotaKey, clock)
     IN  req' = [req EXCEPT ![r] =
           IF d.write # "none"
           THEN [@ EXCEPT !.quota = d, !.pc = "quotaUpdate"]
           ELSE IF ~d.result.allowed
           THEN [@ EXCEPT !.quota = d, !.auth = "over quota",
                          !.reply = Send(WithHeaders(@,
                                      {"X-Quota-Limit", "X-Quota-Used",
                                       "X-Quota-Reset"}), 429, "quota"),
                          !.pc = IF StopsAfterAuth(TRUE) THEN "done"
                                 ELSE "rate"]
           ELSE [@ EXCEPT !.quota = d, !.auth = "allowed",
                          !.apiKey = req[r].found,
                          !.pc = IF StopsAfterAuth(FALSE) THEN "done"
                                 ELSE "rate"]]
  /\ UNCHANGED <<store, apiKeys>>
  /\ PipeUnchanged

\* the database applies the update of checkAndUpdateQuota; the call returns
\* allowed=true and apiAuth attaches the credential (line 147)
QuotaUpdateP(r) ==
  /\ req[r].pc = "quotaUpdate"
  /\ apiKeys' = [apiKeys EXCEPT ![req[r].found] =
                   UpdatedKey(@, req[r].quota)]
  /\ req' = [req EXCEPT ![r].auth = "allowed", ![r].apiKey = req[r].found,
                        ![r].pc = IF StopsAfterAuth(FALSE) THEN "done"
                                  ELSE "rate"]
  /\ UNCHANGED store
  /\ PipeUnchanged

\* executeCode as the handler calls it (line 106): whether it is called
\* with a language it runs, and so spawns a process
Spawns(route, harnessWritten) ==
  /\ Runner(route.language) # "none"
  /\ Enabled(env, Runner(route.language))
  /\ harnessWritten

\* lines 59-106: the rate-limit check and, when it allows the request,
\* the call of executeCode up to its await
RateLimitAndExecute(r) ==
  /\ req[r].pc = "rate"
  /\ LET route      == routes[req[r].route]
         identifier == RateLimitIdentifier(route, req[r].request,
                                           req[r].apiKey, apiKeys)
         config     == RateLimitConfig(route)
         res        == checkRateLimit(store, identifier, config, now)
     IN  \E harnessWritten \in BOOLEAN :
           IF route.rateLimitEnabled
           THEN /\ store' = StoreAfterCheck(store, identifier, config, now)
                /\ req' = [req EXCEPT ![r] =
                     IF ~res.allowed
                     THEN [@ EXCEPT !.limited = TRUE, !.rl = res,
                             !.rlKey = generateKey(identifier, route.id),
                             !.reply = WithHeaders(@,
                                {"X-RateLimit-Limit", "X-RateLimit-Remaining",
                                 "X-RateLimit-Reset", "Retry-After"}),
                             !.pc = "log429"]
                     ELSE [@ EXCEPT !.limited = TRUE, !.rl = res,
                             !.rlKey = generateKey(identifier, route.id),
                             !.reply = WithHeaders(@,
                                {"X-RateLimit-Limit", "X-RateLimit-Remaining",
                                 "X-RateLimit-Reset"}),
                             !.called = TRUE,
                             !.spawned = Spawns(route, harnessWritten),
                             !.pc = IF harnessWritten THEN "exec"
                                    ELSE "thrown"]]
           ELSE /\ store' = store
                /\ req' = [req EXCEPT ![r].called = TRUE,
                             ![r].spawned = Spawns(route, harnessWritten),
                             ![r].pc = IF harnessWritten THEN "exec"
                                       ELSE "thrown"]
  /\ UNCHANGED apiKeys
  /\ PipeUnchanged

\* a mutation of logRequest: without the try / catch, a failed write throws
logRequest_Rethrows(written) == IF written THEN "returned" ELSE "thrown"

\* logRequest (lines 208-242): prisma.requestLog.create inside try / catch;
\* the catch block prints the error, so the call returns whether or not the
\* row was written
logRequest(written) == "returned"

\* the handler's locals once logRequest has been called and has returned
Logged(q, written) ==
  [q EXCEPT !.logCalls = @ + 1, !.logFailed = ~written,
            !.logged = IF written THEN @ + 1 ELSE @,
            !.record = IF written THEN LogRecord(q.request) ELSE @]

\* the handler's locals when an exception leaves it: the server's error
\* handler answers 500
Thrown(q) == [q EXCEPT !.reply = Send(@, 500, "error handler"), !.pc = "done"]

\* lines 79-85: the rejection is logged, then 429 is sent
LogAndReject(r) ==
  /\ req[r].pc = "log429"
  /\ \E written \in BOOLEAN :
       req' = [req EXCEPT ![r] =
                 IF logRequest(written) = "thrown"
                 THEN Thrown([@ EXCEPT !.logCalls = @ + 1])
                 ELSE [Logged(@, written) EXCEPT
                         !.reply = Send(@, 429, "rate"), !.pc = "done"]]
  /\ UNCHANGED <<store, apiKeys>>
  /\ PipeUnchanged

\* the promise of executeCode resolves
ExecutionDone(r) ==
  /\ req[r].pc = "exec"
  /\ LET route == routes[req[r].route]
     IN  \E result \in SpawnedResults :
           req' = [req EXCEPT ![r].pc = "log",
                     ![r].result =
                        IF Runner(route.language) = "none"
                        THEN UnsupportedResult
                        ELSE IF ~Enabled(env, Runner(route.language))
                        THEN DisabledResult
                        ELSE result]
  /\ UNCHANGED <<store, apiKeys>>
  /\ PipeUnchanged

\* the promise of executeCode rejects (the harness file could not be
\* written): the handler throws and the server answers 500
ExecutionThrown(r) ==
  /\ req[r].pc = "thrown"
  /\ req' = [req EXCEPT ![r] = Thrown(@)]
  /\ UNCHANGED <<store, apiKeys>>
  /\ PipeUnchanged

\* lines 108-134: the request is logged, then the result is sent
LogAndSend(r) ==
  /\ req[r].pc = "log"
  /\ \E written \in BOOLEAN :
       req' = [req EXCEPT ![r] =
                 IF logRequest(written) = "thrown"
                 THEN Thrown([@ EXCEPT !.logCalls = @ + 1])
                 ELSE [Logged(@, written) EXCEPT
                         !.reply = Send(WithHeaders(@,
                                      {"X-Execution-Time",
                                       "X-Response-Time"}),
                                    req[r].result.status, "exec"),
                         !.pc = "done"]]
  /\ UNCHANGED <<store, apiKeys>>
  /\ PipeUnchanged

PipeTick ==
  /\ \E d \in PipeDeltas : now + d <= MaxNow /\ now' = now + d
  /\ UNCHANGED <<routes, store, rlRes, rlCall, rlRank, quotaVars, execVars, resolution,
                 adminVars, unswept, req>>

NextPipe ==
  \/ PipeTick
  \/ \E r \in ReqIds : Receive(r)
  \/ \E r \in ReqIds : ResolveRoute(r)
  \/ \E r \in ReqIds : Authenticate(r)
  \/ \E r \in ReqIds : QuotaFindP(r)
  \/ \E r \in ReqIds : QuotaDecideP(r)
  \/ \E r \in ReqIds : QuotaUpdateP(r)
  \/ \E r \in ReqIds : RateLimitAndExecute(r)
  \/ \E r \in ReqIds : LogAndReject(r)
  \/ \E r \in ReqIds : ExecutionDone(r)
  \/ \E r \in ReqIds : ExecutionThrown(r)
  \/ \E r \in ReqIds : LogAndSend(r)

SpecPipe == InitPipe /\ [][NextPipe]_vars

----------------------------------------------------------------------------
(* Claims about the request pipeline *)

\* the statuses with which route resolution and admission control answer
AdmissionStages == {"route", "auth", "quota", "rate"}

\* the request carries the credential's token on the channel of the
\* credential's authMethod
Presented(request, apiKey) ==
  CASE apiKey.authMethod = "header" -> request.xApiKey = apiKey.key
    [] apiKey.authMethod = "bearer" -> request.bearer = apiKey.key
    [] apiKey.authMethod = "query"  -> request.query = apiKey.key
    [] OTHER -> /\ apiKey.customHeader \in DOMAIN request.custom
                /\ request.custom[apiKey.customHeader] = apiKey.key

\* C2: executeCode is called, and a process spawned, for a request only if
\* a matching route was found and is enabled, authentication allowed the
\* request, the credential's quota allowed it and the rate limiter allowed
\* it; a request that route resolution or admission control answers with
\* 404, 503, 401, 403 or 429 spawns no process
C2_SpawnOnlyAfterAdmission ==
  \A r \in ReqIds :
    /\ req[r].spawned => req[r].called
    /\ req[r].called =>
         /\ req[r].route # ""
         /\ routes[req[r].route].enabled
         /\ matchPath(routes[req[r].route].path, req[r].request.path)
         /\ \/ routes[req[r].route].authType = "none"
            \/ /\ req[r].apiKey # ""
               /\ apiKeys[req[r].apiKey].enabled
               /\ Presented(req[r].request, apiKeys[req[r].apiKey])
               /\ req[r].quota.result.allowed
         /\ routes[req[r].route].rateLimitEnabled =>
              req[r].limited /\ req[r].rl.allowed
         /\ req[r].reply.by \notin AdmissionStages
    /\ req[r].reply.by \in AdmissionStages =>
         /\ req[r].reply.status \in {404, 503, 401, 403, 429}
         /\ ~req[r].called /\ ~req[r].spawned
         /\ req[r].pc = "done"

\* a request with a credential has passed authentication, quota and rate
\* limiter and spawned a process, while another was answered 429 by the
\* quota check and spawned none
C2_Witness ==
  \E a, b \in ReqIds :
    /\ req[a].spawned /\ req[a].apiKey = "k1" /\ req[a].limited
    /\ req[a].reply.by = "exec"
    /\ req[b].reply.by = "quota" /\ req[b].reply.status = 429
    /\ ~req[b].spawned

\* the requests whose rate-limit check was made on the key
ChecksOf(key) == {r \in ReqIds : req[r].limited /\ req[r].rlKey = key}

Min(a, b) == IF a <= b THEN a ELSE b

\* C4: when the requests for one rate-limit key are handled concurrently
\* inside one window, starting from no entry, no increment is lost: the
\* entry counts every check, min(checks, limit) of them are allowed, and
\* with N requests and limit N-1 exactly one is rejected
C4_NoLostIncrement ==
  \A key \in DOMAIN store :
    LET checks  == ChecksOf(key)
        limit   == routes[key[1]].rateLimitRequests
        allowed == {r \in checks : req[r].rl.allowed}
    IN  (\A r \in checks : req[r].rl.resetAt = store[key].resetAt) =>
          /\ store[key].count = Cardinality(checks)
          /\ Cardinality(allowed) = Min(Cardinality(checks), limit)
          /\ (Cardinality(checks) = NumReqs /\ limit = NumReqs - 1) =>
               Cardinality(checks \ allowed) = 1

\* all N requests went to the key with limit N-1 in one window and are
\* done: N-1 were executed and one was answered 429 by the rate limiter
C4_Witness ==
  LET key == generateKey("ip1", "rOpen")
  IN  /\ key \in DOMAIN store
      /\ ChecksOf(key) = ReqIds
      /\ routes["rOpen"].rateLimitRequests = NumReqs - 1
      /\ \A r \in ReqIds :
           req[r].pc = "done" /\ req[r].rl.resetAt = store[key].resetAt
      /\ Cardinality({r \in ReqIds : req[r].reply.by = "rate"}) = 1
      /\ Cardinality({r \in ReqIds : req[r].reply.by = "exec"}) = NumReqs - 1

\* C23: admission control runs in the order route resolution,
\* authentication, rate limiting, quota accounting, execution: the quota of
\* a credential is consumed only once the rate limiter has allowed the
\* request, so a request answered 429 by the rate limiter has not increased
\* the quotaUsed of its credential
C23_RateLimitBeforeQuota ==
  \A r \in ReqIds :
    /\ (req[r].auth = "allowed" /\ req[r].quota.write # "none"
          /\ routes[req[r].route].rateLimitEnabled)
         => (req[r].limited /\ req[r].rl.allowed)
    /\ (req[r].pc = "done" /\ req[r].reply.by = "rate")
         => req[r].quota.write = "none"

\* C25: every request the pipeline handles, whatever its outcome (404, 503,
\* 401, 403, quota 429, rate-limit 429, execution success or failure), is
\* handed to the logging collaborator exactly once before its handler
\* finishes
C25_EveryOutcomeLogged ==
  \A r \in ReqIds :
    /\ req[r].logCalls <= 1
    /\ req[r].pc = "done" => req[r].logCalls = 1

\* the expected headers of a reply sent after the rate-limit check
RateLimitHeaders ==
  {"X-RateLimit-Limit", "X-RateLimit-Remaining", "X-RateLimit-Reset"}

\* C26: a failure of the log write never changes the response: whether the
\* row was written or not, a request rejected by the rate limiter is
\* answered 429 with the rate-limit headers and Retry-After, an executed
\* request is answered with the status of the execution result and the
\* execution headers, and no exception leaves logRequest
C26_LogFailureHarmless ==
  \A r \in ReqIds :
    (req[r].pc = "done" /\ req[r].logCalls > 0) =>
      /\ req[r].reply.by \in {"rate", "exec"}
      /\ req[r].reply.by = "rate" =>
           /\ req[r].reply.status = 429 /\ ~req[r].rl.allowed
           /\ req[r].reply.headers = RateLimitHeaders \cup {"Retry-After"}
      /\ req[r].reply.by = "exec" =>
           /\ req[r].reply.status = req[r].result.status
           /\ req[r].reply.headers =
                {"X-Execution-Time", "X-Response-Time"}
                  \cup (IF req[r].limited THEN RateLimitHeaders ELSE {})

\* the log write failed for a request rejected by the rate limiter and for
\* an executed request; both were answered as usual
C26_Witness ==
  \E a, b \in ReqIds :
    /\ req[a].pc = "done" /\ req[a].logFailed /\ req[a].logged = 0
    /\ req[a].reply.status = 429 /\ req[a].reply.by = "rate"
    /\ req[b].pc = "done" /\ req[b].logFailed /\ req[b].logged = 0
    /\ req[b].reply.by = "exec" /\ req[b].reply.status = 200

\* C28: every 429 response of the pipeline carries Retry-After; every
\* response of a request that reached the rate limiter of a rate-limited
\* route, allowed or rejected, carries X-RateLimit-Limit,
\* X-RateLimit-Remaining and X-RateLimit-Reset; a quota rejection carries
\* X-Quota-Limit, X-Quota-Used and X-Quota-Reset.  (Headers are modelled by
\* their names.)
C28_ResponseHeaders ==
  \A r \in ReqIds :
    req[r].pc = "done" =>
      /\ req[r].reply.status = 429 => "Retry-After" \in req[r].reply.headers
      /\ req[r].limited => RateLimitHeaders \subseteq req[r].reply.headers
      /\ req[r].reply.by = "quota" =>
           {"X-Quota-Limit", "X-Quota-Used", "X-Quota-Reset"}
             \subseteq req[r].reply.headers

\* the routes that findMatchingRoute can return for a request
RoutesFor(request) ==
  {id \in DOMAIN routes :
     /\ routes[id].method = request.method
     /\ \/ routes[id].path = request.path
        \/ matchPath(routes[id].path, request.path)}

\* the handler of request r has passed the route lookup
Resolved(r) == req[r].pc \notin {"idle", "resolve"}

\* the request was answered without authentication, rate limiting or
\* execution having run for it
AnsweredByResolver(r, status) ==
  /\ req[r].pc = "done" /\ req[r].reply.status = status
  /\ req[r].auth = "" /\ req[r].found = "" /\ req[r].apiKey = ""
  /\ ~req[r].limited /\ ~req[r].called

\* C18: a request whose resolved route is disabled is answered 503, a
\* request that matches no route is answered 404; in both cases no
\* credential is looked up and the step that answers leaves the rate-limit
\* table and the credentials' quota usage as they are
C18_EarlyAnswers ==
  /\ [](\A r \in ReqIds :
          Resolved(r) =>
            /\ (RoutesFor(req[r].request) = {}) => AnsweredByResolver(r, 404)
            /\ (\A id \in RoutesFor(req[r].request) : ~routes[id].enabled)
                 /\ RoutesFor(req[r].request) # {}
                 => AnsweredByResolver(r, 503))
  /\ [][\A r \in ReqIds :
          (req[r].pc = "resolve" /\ req'[r].reply.status \in {404, 503})
            => store' = store /\ apiKeys' = apiKeys]_vars

\* a disabled route and a missing route were asked for and answered
C18_Witness ==
  /\ \E r \in ReqIds : /\ AnsweredByResolver(r, 503)
                       /\ req[r].request.path = <<"off">>
  /\ \E r \in ReqIds : /\ AnsweredByResolver(r, 404)
                       /\ req[r].request.path = <<"missing">>

----------------------------------------------------------------------------
(* Authentication on its own: one request to the protected route, for     *)
(* every state of its credential and every way of presenting the token    *)

\* the authType values the admin API accepts for a route
AuthTypes == {"none", "apikey", "bearer", "basic"}

PastDate == DateOf(0)
FutureDate == DateOf(MaxClock + HoursPerDay)

\* the quota columns of the credential: not tracked, unused, and used up
\* until a reset date that has not come
QuotaStates ==
  {[quotaEnabled |-> FALSE, quotaUsed |-> 0, quotaResetAt |-> NullDate],
   [quotaEnabled |-> TRUE, quotaUsed |-> 0, quotaResetAt |-> FutureDate],
   [quotaEnabled |-> TRUE, quotaUsed |-> 1, quotaResetAt |-> FutureDate]}

\* the states of credential k1, whose token is tok1
KeyVariants ==
  {[NewApiKey("k1") EXCEPT
      !.key = "tok1", !.enabled = enabled, !.expiresAt = expiresAt,
      !.permissions = permissions, !.authMethod = authMethod,
      !.customHeader = IF authMethod = "custom" THEN "x-token" ELSE "",
      !.quotaEnabled = quota.quotaEnabled, !.quotaUsed = quota.quotaUsed,
      !.quotaResetAt = quota.quotaResetAt, !.quotaLimit = 1,
      !.quotaPeriod = "day"] :
     enabled \in BOOLEAN, expiresAt \in {NullDate, PastDate, FutureDate},
     permissions \in {{"*"}, {"rOpen", "rSecure"}, {"rOpen"}},
     authMethod \in {"header", "bearer", "query", "custom"},
     quota \in QuotaStates}

\* the ways a request for the protected route carries tok1, or a token
\* that no credential has, or none
AuthRequests ==
  {Request(<<"secure">>, credential) :
     credential \in
       {NoCredential,
        [NoCredential EXCEPT !.xApiKey = "tok1"],
        [NoCredential EXCEPT !.xApiKey = "tok0"],
        [NoCredential EXCEPT !.bearer = "tok1"],
        [NoCredential EXCEPT !.query = "tok1"],
        [NoCredential EXCEPT !.basic = "tok1"],
        [NoCredential EXCEPT !.custom = [h \in {"x-token"} |-> "tok1"]]}}

InitAuth ==
  /\ now \in StartTimes
  /\ store = << >>
  /\ rlRes = UnlimitedResult(RateLimitConfig(DefaultRoute("")))
  /\ rlCall = NoCall
  /\ rlRank = [k \in Keys |-> 0]
  /\ routes \in {[RouteTable EXCEPT !.rSecure.authType = authType] :
                   authType \in AuthTypes}
  /\ clock \in StartClocks
  /\ apiKeys \in {[Credentials EXCEPT !.k1 = apiKey] :
                    apiKey \in KeyVariants}
  /\ qcall = [c \in CallIds |-> IdleCall]
  /\ qGranted = [id \in DOMAIN Credentials |-> 0]
  /\ qLast = NoQuotaCall
  /\ ExecIdle
  /\ PipelineIdle
  /\ ResolverIdle
  /\ AdminIdle
  /\ SweepIdle

\* the request arrives
ReceiveAuth ==
  /\ req[1].pc = "idle"
  /\ \E request \in AuthRequests :
       req' = [req EXCEPT ![1] = [NoRequest EXCEPT !.pc = "resolve",
                                                   !.request = request]]
  /\ UNCHANGED <<store, apiKeys>>
  /\ PipeUnchanged

NextAuth ==
  \/ ReceiveAuth
  \/ ResolveRoute(1)
  \/ Authenticate(1)
  \/ QuotaFindP(1)
  \/ QuotaDecideP(1)
  \/ QuotaUpdateP(1)

SpecAuth == InitAuth /\ [][NextAuth]_vars

----------------------------------------------------------------------------
(* Claims about authentication *)

\* apiAuth has returned for request r
Authenticated(r) == req[r].auth # ""

\* apiAuth answered request r with the status
Denied(r, status) ==
  /\ req[r].auth = "denied" /\ req[r].apiKey = ""
  /\ req[r].reply.status = status /\ req[r].reply.by = "auth"

\* apiAuth let request r through
Passed(r) == req[r].reply.by \notin {"auth", "quota"}

\* C19: on a route whose authType is not 'none', apiAuth ends in exactly
\* one of allow / 401 / 403 / 429, decided in this order: no credential
\* found by any presentation method -> 401; credential disabled -> 401;
\* past its expiresAt -> 401; permissions neither '*' nor a list with the
\* route id -> 403; quota check rejects -> 429; otherwise allow.  On a
\* route with authType 'none' the request is allowed without a lookup.
C19_AuthOrder ==
  \A r \in ReqIds :
    Authenticated(r) =>
      LET route == routes[req[r].route]
          ids   == {id \in DOMAIN apiKeys :
                      Presented(req[r].request, apiKeys[id])}
          id    == CHOOSE i \in ids : TRUE
          k     == apiKeys[id]
      IN  IF route.authType = "none"
          THEN req[r].auth = "public" /\ req[r].found = "" /\ Passed(r)
          ELSE IF ids = {} THEN Denied(r, 401)
          ELSE IF ~k.enabled THEN Denied(r, 401)
          ELSE IF k.expiresAt # NullDate /\ TimeOf(k.expiresAt) < clock
          THEN Denied(r, 401)
          ELSE IF k.permissions # {"*"} /\ route.id \notin k.permissions
          THEN Denied(r, 403)
          ELSE IF ~req[r].quota.result.allowed
          THEN /\ req[r].auth = "over quota" /\ req[r].apiKey = ""
               /\ req[r].reply.status = 429 /\ req[r].reply.by = "quota"
          ELSE /\ req[r].auth = "allowed" /\ req[r].apiKey = id
               /\ Passed(r)

\* a credential that may use the route, presented on its own channel, was
\* answered 429 because its quota is used up
C19_Witness ==
  /\ Authenticated(1)
  /\ apiKeys["k1"].authMethod = "bearer"
  /\ apiKeys["k1"].permissions = {"rOpen", "rSecure"}
  /\ req[1].request.bearer = "tok1"
  /\ routes["rSecure"].authType = "bearer"
  /\ req[1].reply.status = 429 /\ req[1].reply.by = "quota"

\* the token is somewhere in the request
Carries(request, key) ==
  \/ key \in {request.xApiKey, request.bearer, request.query, request.basic}
  \/ \E h \in DOMAIN request.custom : request.custom[h] = key

\* C21: a credential authenticates a request only when its token comes
\* through the channel of its own authMethod (X-API-Key for 'header',
\* Authorization: Bearer for 'bearer', the query parameter for 'query', its
\* own customHeader for 'custom'); a request that carries the token of an
\* enabled credential on another channel only is answered 401
C21_OwnChannelOnly ==
  \A r \in ReqIds :
    (Authenticated(r) /\ routes[req[r].route].authType # "none") =>
      /\ req[r].found # "" => Presented(req[r].request, apiKeys[req[r].found])
      /\ req[r].apiKey # ""
           => Presented(req[r].request, apiKeys[req[r].apiKey])
      /\ ((\E id \in DOMAIN apiKeys :
              /\ apiKeys[id].enabled
              /\ Carries(req[r].request, apiKeys[id].key))
          /\ (\A other \in DOMAIN apiKeys :
                ~Presented(req[r].request, apiKeys[other])))
           => Denied(r, 401)

\* the token of an enabled, unexpired 'header' credential with every
\* permission came as a Bearer token and was answered 401
C21_Witness ==
  /\ Authenticated(1) /\ routes["rSecure"].authType = "apikey"
  /\ apiKeys["k1"].enabled /\ apiKeys["k1"].authMethod = "header"
  /\ apiKeys["k1"].expiresAt = NullDate
  /\ apiKeys["k1"].permissions = {"*"}
  /\ req[1].request.bearer = "tok1"
  /\ Denied(1, 401)

\* request r has passed the lookup, enabled, expiry and permission checks
\* of apiAuth with credential id, whose quota is tracked
PassedChecks(r, id) ==
  /\ req[r].found = id /\ req[r].route # ""
  /\ routes[req[r].route].authType # "none"
  /\ Presented(req[r].request, apiKeys[id])
  /\ apiKeys[id].enabled
  /\ ~Expired(apiKeys[id], clock)
  /\ hasPermission(apiKeys[id], req[r].route, clock)
  /\ apiKeys[id].quotaEnabled

\* C22: the quota state of a credential (quotaUsed, quotaResetAt) is
\* changed only by the step of a request that passed the lookup, enabled,
\* expiry and permission checks on a quota-enabled credential, and that
\* step changes nothing else of the credentials; no step of a request
\* answered 401 or 403, and no step of a request whose credential has its
\* quota disabled, changes a credential
C22_QuotaFrame ==
  [][/\ \A id \in DOMAIN apiKeys :
          apiKeys'[id] # apiKeys[id] =>
            /\ \E r \in ReqIds :
                 /\ PassedChecks(r, id)
                 /\ req[r].reply.status = 0
                 /\ req'[r].reply.status \notin {401, 403}
            /\ apiKeys'[id] =
                 [apiKeys[id] EXCEPT !.quotaUsed = apiKeys'[id].quotaUsed,
                                     !.quotaResetAt = apiKeys'[id].quotaResetAt]
     /\ \A r \in ReqIds :
          (/\ req'[r] # req[r]
           /\ \/ req'[r].reply.status \in {401, 403}
              \/ (req[r].found # "" /\ ~apiKeys[req[r].found].quotaEnabled))
          => apiKeys' = apiKeys]_vars

\* a request has consumed one unit of the quota of its credential
C22_Witness ==
  /\ req[1].auth = "allowed" /\ req[1].apiKey = "k1"
  /\ req[1].quota.write = "increment"
  /\ PassedChecks(1, "k1")
  /\ apiKeys["k1"].quotaUsed = 1

----------------------------------------------------------------------------
(* Authentication by the apiAuth that dispatches on the route's authType *)

\* that apiAuth up to the quota check, and line 57 of the handler
AuthenticateByType(r) ==
  /\ req[r].pc = "auth"
  /\ LET route == routes[req[r].route]
         a     == apiAuthByType(apiKeys, route, req[r].request, clock)
     IN  req' = [req EXCEPT ![r] =
           IF route.authType = "none"
           THEN [@ EXCEPT !.auth = "public",
                          !.pc = IF StopsAfterAuth(FALSE) THEN "done"
                                 ELSE "rate"]
           ELSE IF a.status # 0
           THEN [@ EXCEPT !.auth = "denied",
                          !.reply = Send(@, a.status, "auth"),
                          !.pc = IF StopsAfterAuth(TRUE) THEN "done"
                                 ELSE "rate"]
           ELSE [@ EXCEPT !.found = a.id, !.pc = "quotaFind"]]
  /\ UNCHANGED <<store, apiKeys>>
  /\ PipeUnchanged

NextAuthByType ==
  \/ ReceiveAuth
  \/ ResolveRoute(1)
  \/ AuthenticateByType(1)
  \/ QuotaFindP(1)
  \/ QuotaDecideP(1)
  \/ QuotaUpdateP(1)

SpecAuthByType == InitAuth /\ [][NextAuthByType]_vars

\* the request carries the token where the authentication mode of the
\* route looks for it
PresentedFor(authType, request, key) ==
  CASE authType = "apikey" -> key \in {request.xApiKey, request.query,
                                       request.bearer}
    [] authType = "bearer" -> key = request.bearer
    [] authType = "basic"  -> key = request.basic
    [] OTHER -> FALSE

\* C20: an expired credential that presents its correct token is answered
\* 401, never 403 and never allowed, whether the route authenticates by
\* apikey, bearer or basic; stated for a credential that is enabled and
\* whose permissions are '*', so that nothing but the expiry stands
\* against it
C20_ExpiredIs401 ==
  \A r \in ReqIds :
    (/\ Authenticated(r)
     /\ \E id \in DOMAIN apiKeys :
          /\ apiKeys[id].enabled /\ apiKeys[id].permissions = {"*"}
          /\ apiKeys[id].expiresAt # NullDate
          /\ TimeOf(apiKeys[id].expiresAt) < clock
          /\ PresentedFor(routes[req[r].route].authType, req[r].request,
                          apiKeys[id].key))
    => Denied(r, 401)

----------------------------------------------------------------------------
(* The rate-limit identifier: requests of two credentials and of none,     *)
(* from two addresses, to a protected route limited per credential, a      *)
(* protected route limited per address and a public route                  *)

IdentRoutes ==
  [RouteTable EXCEPT !.rOpen.rateLimitBy = "apikey",
                     !.rUser.authType = "apikey",
                     !.rUser.rateLimitEnabled = TRUE,
                     !.rUser.rateLimitRequests = 1,
                     !.rUser.rateLimitWindow = 1]

\* k1 and k2 may both use every route; the quota of k1 lets every request
\* through
IdentCredentials ==
  [Credentials EXCEPT !.k1.quotaLimit = NumReqs + 1,
                      !.k2.permissions = {"*"}]

IdentRequests ==
  {[Request(path, credential) EXCEPT !.ip = ip] :
     path \in {<<"open">>, <<"secure">>, <<"users", "42">>},
     credential \in {NoCredential,
                     [NoCredential EXCEPT !.xApiKey = "tok1"],
                     [NoCredential EXCEPT !.bearer = "tok2"]},
     ip \in Identifiers}

InitIdent ==
  /\ now \in StartTimes
  /\ routes = IdentRoutes
  /\ store = << >>
  /\ rlRes = UnlimitedResult(RateLimitConfig(DefaultRoute("")))
  /\ rlCall = NoCall
  /\ rlRank = [k \in Keys |-> 0]
  /\ clock \in StartClocks
  /\ apiKeys = IdentCredentials
  /\ qcall = [c \in CallIds |-> IdleCall]
  /\ qGranted = [id \in DOMAIN Credentials |-> 0]
  /\ qLast = NoQuotaCall
  /\ ExecIdle
  /\ PipelineIdle
  /\ ResolverIdle
  /\ AdminIdle
  /\ SweepIdle

\* a request arrives
ReceiveIdent(r) ==
  /\ req[r].pc = "idle"
  /\ \E request \in IdentRequests :
       req' = [req EXCEPT ![r] = [NoRequest EXCEPT !.pc = "resolve",
                                                   !.request = request]]
  /\ UNCHANGED <<store, apiKeys>>
  /\ PipeUnchanged

\* createRateLimitMiddleware (rateLimiter.js, lines 100-137) run for the
\* request once apiAuth has returned
RateLimitMiddleware(r) ==
  /\ req[r].pc = "rate"
  /\ LET route      == routes[req[r].route]
         identifier == MiddlewareIdentifier(route, req[r].request,
                                            req[r].apiKey, apiKeys)
         config     == RateLimitConfig(route)
         result     == checkRateLimit(store, identifier, config, now)
     IN  IF ~route.rateLimitEnabled
         THEN /\ store' = store
              /\ req' = [req EXCEPT ![r].pc = "passed"]
         ELSE /\ store' = StoreAfterCheck(store, identifier, config, now)
              /\ req' = [req EXCEPT ![r] =
                   IF ~result.allowed
                   THEN [@ EXCEPT !.limited = TRUE, !.rl = result,
                           !.rlKey = generateKey(identifier, route.id),
                           !.reply = Send(WithHeaders(@,
                              {"X-RateLimit-Limit", "X-RateLimit-Remaining",
                               "X-RateLimit-Reset", "Retry-After"}),
                              429, "rate"),
                           !.pc = "done"]
                   ELSE [@ EXCEPT !.limited = TRUE, !.rl = result,
                           !.rlKey = generateKey(identifier, route.id),
                           !.reply = WithHeaders(@,
                              {"X-RateLimit-Limit", "X-RateLimit-Remaining",
                               "X-RateLimit-Reset"}),
                           !.pc = "passed"]]
  /\ UNCHANGED apiKeys
  /\ PipeUnchanged

\* the handler of routes/api.js, which computes the identifier itself
NextIdent ==
  \/ \E r \in ReqIds : ReceiveIdent(r)
  \/ \E r \in ReqIds : ResolveRoute(r)
  \/ \E r \in ReqIds : Authenticate(r)
  \/ \E r \in ReqIds : QuotaFindP(r)
  \/ \E r \in ReqIds : QuotaDecideP(r)
  \/ \E r \in ReqIds : QuotaUpdateP(r)
  \/ \E r \in ReqIds : RateLimitAndExecute(r)
  \/ \E r \in ReqIds : LogAndReject(r)

SpecIdent == InitIdent /\ [][NextIdent]_vars

\* the same requests with createRateLimitMiddleware as the rate-limit step
NextIdentMiddleware ==
  \/ \E r \in ReqIds : ReceiveIdent(r)
  \/ \E r \in ReqIds : ResolveRoute(r)
  \/ \E r \in ReqIds : Authenticate(r)
  \/ \E r \in ReqIds : QuotaFindP(r)
  \/ \E r \in ReqIds : QuotaDecideP(r)
  \/ \E r \in ReqIds : QuotaUpdateP(r)
  \/ \E r \in ReqIds : RateLimitMiddleware(r)

SpecIdentMiddleware == InitIdent /\ [][NextIdentMiddleware]_vars

\* C24: the credential is attached to the request exactly when apiAuth
\* succeeded with a credential, and it selects the rate-limit identifier:
\* on a route keyed by 'apikey' two requests with different credentials are
\* counted in different entries, also from one address, and two requests
\* with the same credential in one entry, also from different addresses;
\* on a route keyed by 'ip', or without a credential attached, the entry is
\* that of the network address
C24_IdentifierByCredential ==
  /\ \A r \in ReqIds :
       /\ Authenticated(r) =>
            ((req[r].apiKey # "") <=>
               (req[r].auth = "allowed" /\ req[r].found # ""))
       /\ req[r].apiKey # "" => req[r].apiKey = req[r].found
       /\ (req[r].limited
             /\ (routes[req[r].route].rateLimitBy = "ip"
                   \/ req[r].apiKey = ""))
            => req[r].rlKey = generateKey(req[r].request.ip, req[r].route)
  /\ \A a, b \in ReqIds :
       (/\ req[a].limited /\ req[b].limited
        /\ req[a].route = req[b].route
        /\ routes[req[a].route].rateLimitBy = "apikey"
        /\ req[a].apiKey # "" /\ req[b].apiKey # "")
       => ((req[a].rlKey = req[b].rlKey) <=> (req[a].apiKey = req[b].apiKey))

----------------------------------------------------------------------------
(* The login handler: concurrent attempts from one client address *)

InitLogin ==
  /\ now \in StartTimes
  /\ routes = << >>
  /\ store = << >>
  /\ rlRes = UnlimitedResult(RateLimitConfig(DefaultRoute("")))
  /\ rlCall = NoCall
  /\ rlRank = [k \in Keys |-> 0]
  /\ QuotaIdle
  /\ ExecIdle
  /\ PipelineIdle
  /\ ResolverIdle
  /\ \E configured \in BOOLEAN :
       login = [NoLogin EXCEPT !.configured = configured]
  /\ CacheIdle
  /\ SweepIdle

LoginUnchanged ==
  UNCHANGED <<routes, rlCall, rlRank, quotaVars, execVars, req,
              resolution, routeCache, cacheStats, cacheHistory, unswept>>

\* a mutation of LoginRejected: the result of the check is not looked at
LoginRejected_Never(rateLimitResult) == FALSE

\* line 1007: `if (!rateLimitResult.allowed)`
LoginRejected(rateLimitResult) == ~rateLimitResult.allowed

\* the window of the client address once an attempt is made at time t: a
\* new one when none is open or the open one started more than
\* LoginWindow seconds ago
WindowAt(w, t) ==
  IF w.open /\ t <= w.start + LoginWindow * MsPerSecond THEN w
  ELSE [open |-> TRUE, start |-> t, attempts |-> 0, admitted |-> 0]

\* handler a has answered: its attempt is kept as the latest answered
\* one, and the handlers that answered before it are idle again
Answered(attempt, a, answer) ==
  [b \in LoginIds |->
     IF b = a THEN answer
     ELSE IF attempt[b].pc = "done" THEN NoAttempt
     ELSE attempt[b]]

\* lines 999-1018: an attempt arrives; the check counts it, and the
\* handler answers 429 or goes on to read the configuration.  The handlers
\* are alike: an attempt is given the first one that is not in flight.
\* rlRes is the result of the latest check; the handler reads it at once.
LoginCheck(a) ==
  /\ login.attempt[a].pc \in {"idle", "done"}
  /\ \A b \in LoginIds : b < a => login.attempt[b].pc \in {"find", "compare"}
  /\ LET key == generateKey(ClientIp, LoginConfig.routeId)
     IN  ~NoLiveEntry(store, key, now) => store[key].count < MaxAttempts
  /\ \E correct \in BOOLEAN :
       LET result == checkRateLimit(store, ClientIp, LoginConfig, now)
           w      == WindowAt(login.window, now)
       IN  /\ store' = StoreAfterCheck(store, ClientIp, LoginConfig, now)
           /\ rlRes' = result
           /\ login' =
                [login EXCEPT
                   !.attempt =
                      IF LoginRejected(result)
                      THEN Answered(@, a,
                             [NoAttempt EXCEPT
                                !.pc = "done", !.correct = correct,
                                !.status = 429,
                                !.headers = {"Retry-After"}])
                      ELSE [@ EXCEPT
                              ![a] = [NoAttempt EXCEPT
                                        !.pc = "find", !.correct = correct,
                                        !.allowed = TRUE]],
                   !.window =
                      [w EXCEPT !.attempts = @ + 1,
                                !.admitted = IF LoginRejected(result) THEN @
                                             ELSE @ + 1]]
  /\ UNCHANGED now
  /\ LoginUnchanged

\* lines 1018-1029: the configuration has been read; 500 without one,
\* else bcrypt.compare is called
LoginFind(a) ==
  /\ login.attempt[a].pc = "find"
  /\ login' = [login EXCEPT !.attempt =
                 IF ~login.configured
                 THEN Answered(@, a, [@[a] EXCEPT !.pc = "done",
                                                  !.status = 500])
                 ELSE [@ EXCEPT ![a].pc = "compare", ![a].compared = TRUE]]
  /\ UNCHANGED <<now, store, rlRes>>
  /\ LoginUnchanged

\* lines 1029-1060: the comparison has returned; 401 for a wrong password,
\* else resetRateLimit and the token
LoginVerdict(a) ==
  /\ login.attempt[a].pc = "compare"
  /\ IF ~login.attempt[a].correct
     THEN /\ login' = [login EXCEPT
                         !.attempt = Answered(@, a, [@[a] EXCEPT
                                                       !.pc = "done",
                                                       !.status = 401])]
          /\ UNCHANGED store
     ELSE /\ store' = StoreAfterReset(store, ClientIp, LoginConfig.routeId)
          /\ login' = [login EXCEPT
                         !.attempt = Answered(@, a, [@[a] EXCEPT
                                                       !.pc = "done",
                                                       !.status = 200]),
                         !.window = NoWindow]
  /\ UNCHANGED <<now, rlRes>>
  /\ LoginUnchanged

LoginTick ==
  /\ \E d \in LoginDeltas : now + d <= MaxLoginNow /\ now' = now + d
  /\ UNCHANGED <<store, login, rlRes>>
  /\ LoginUnchanged

\* the setInterval callback of rateLimiter.js
LoginSweep ==
  /\ store' = StoreAfterSweep(store, now)
  /\ store' # store
  /\ UNCHANGED <<now, login, rlRes>>
  /\ LoginUnchanged

NextLogin ==
  \/ LoginTick
  \/ LoginSweep
  \/ \E a \in LoginIds : LoginCheck(a)
  \/ \E a \in LoginIds : LoginFind(a)
  \/ \E a \in LoginIds : LoginVerdict(a)

SpecLogin == InitLogin /\ [][NextLogin]_vars

\* C27: under any interleaving of login attempts from one client address,
\* at most 5 attempts of a 15-minute window reach the password comparison
\* unless a login succeeds in between; every further attempt of the window
\* is answered 429 without a comparison, also with the correct password; a
\* successful login deletes the entry, and the attempt after it starts a
\* new window with 5 attempts
C27_LoginBruteforce ==
  /\ [](/\ login.window.admitted <= 5
        /\ login.window.open =>
             login.window.admitted
               = (IF login.window.attempts <= 5 THEN login.window.attempts
                  ELSE 5)
        /\ \A a \in LoginIds :
             LET at == login.attempt[a]
             IN  /\ at.compared => at.allowed
                 /\ at.status = 429 <=> (at.pc = "done" /\ ~at.allowed)
                 /\ at.status = 429 =>
                      ~at.compared /\ "Retry-After" \in at.headers)
  /\ [][\A a \in LoginIds :
          /\ (login.attempt[a].pc = "compare"
                /\ login'.attempt[a].status = 200)
              => generateKey(ClientIp, LoginConfig.routeId)
                   \notin DOMAIN store'
          /\ (login.attempt[a].pc \in {"idle", "done"}
                /\ login'.attempt[a].pc = "find"
                /\ ~login.window.open)
              => /\ rlRes'.remaining = 4
                 /\ rlRes'.resetAt = now + 900 * 1000]_vars

\* in one window five attempts with a wrong password were compared and a
\* sixth, with the correct password, was answered 429 without a comparison
C27_Witness ==
  /\ login.window.open /\ login.window.attempts = 6
  /\ login.window.admitted = 5
  /\ \E a \in LoginIds :
       /\ login.attempt[a].pc = "done" /\ login.attempt[a].correct
       /\ login.attempt[a].status = 429 /\ ~login.attempt[a].compared

----------------------------------------------------------------------------
(* The route cache: lookups through the cache while the admin API updates  *)
(* and deletes routes                                                      *)

CacheRoutes ==
  [rOpen |-> NewRoute("rOpen", <<"open">>),
   rUser |-> NewRoute("rUser", <<"users", ":id">>)]

CachePaths == {<<"open">>, <<"users", "42">>, <<"missing">>}

\* the routes of the table in the order of their creation
StorageOrder(table) ==
  SelectSeq(<<"rOpen", "rUser">>, LAMBDA id : id \in DOMAIN table)

InitCache ==
  /\ now \in StartTimes
  /\ routes = CacheRoutes
  /\ store = << >>
  /\ rlRes = UnlimitedResult(RateLimitConfig(DefaultRoute("")))
  /\ rlCall = NoCall
  /\ rlRank = [k \in Keys |-> 0]
  /\ QuotaIdle
  /\ ExecIdle
  /\ PipelineIdle
  /\ ResolverIdle
  /\ AdminIdle
  /\ SweepIdle

CacheUnchanged ==
  UNCHANGED <<store, rlRes, rlCall, rlRank, quotaVars, execVars, req,
              resolution, login, unswept>>

\* a lookup of (path, method) through the cache: the cached route on a
\* hit; on a miss the route findMatchingRoute returns, which is cached
CachedLookup ==
  /\ cacheHistory.calls < MaxLookups
  /\ \E path \in CachePaths :
       LET key == generateCacheKey(path, "GET")
           id  == findMatchingRoute(routes, StorageOrder(routes), path, "GET")
           asked == [NoCacheLookup EXCEPT !.made = TRUE, !.path = path,
                                          !.method = "GET"]
           hit == CacheHit(routeCache.entries, key, now)
       IN
       /\ cacheStats' = StatsAfterGet(cacheStats, hit)
       /\ cacheHistory' =
            [calls |-> cacheHistory.calls + 1,
             latest |-> IF hit \/ id = "" THEN cacheHistory.latest
                        ELSE LatestAfterSet(cacheHistory.latest, key,
                                            routes[id], now)]
       /\ routeCache' =
             IF CacheHit(routeCache.entries, key, now)
             THEN [routeCache EXCEPT
                     !.lookup = [asked EXCEPT
                                   !.hit = TRUE, !.found = TRUE,
                                   !.route = routeCache.entries[key].route]]
             ELSE IF id = ""
             THEN [entries |-> CacheAfterGet(routeCache.entries, key, now),
                   lookup |-> asked]
             ELSE [entries |->
                     setCachedRoute(CacheAfterGet(routeCache.entries, key, now),
                                    key, routes[id], now),
                   lookup |-> [asked EXCEPT !.found = TRUE,
                                            !.route = routes[id]]]
  /\ UNCHANGED <<now, routes>>
  /\ CacheUnchanged

\* PUT /admin/routes/:id (admin.js, lines 104-126): prisma.apiRoute.update
AdminUpdateRoute ==
  /\ \E id \in DOMAIN routes, enabled \in BOOLEAN :
       /\ routes[id].enabled # enabled
       /\ routes' = [routes EXCEPT ![id].enabled = enabled]
  /\ routeCache' = [routeCache EXCEPT !.lookup = NoCacheLookup]
  /\ UNCHANGED <<now, cacheStats, cacheHistory>>
  /\ CacheUnchanged

\* DELETE /admin/routes/:id (admin.js, lines 131-143):
\* prisma.apiRoute.delete
AdminDeleteRoute ==
  /\ \E id \in DOMAIN routes :
       routes' = [r \in DOMAIN routes \ {id} |-> routes[r]]
  /\ routeCache' = [routeCache EXCEPT !.lookup = NoCacheLookup]
  /\ UNCHANGED <<now, cacheStats, cacheHistory>>
  /\ CacheUnchanged

CacheTick ==
  /\ \E d \in CacheDeltas : now + d <= MaxCacheNow /\ now' = now + d
  /\ UNCHANGED <<routes, routeCache, cacheStats, cacheHistory>>
  /\ CacheUnchanged

\* the setInterval callback of routeCache.js
CacheSweep ==
  /\ routeCache' = [routeCache EXCEPT
                      !.entries = CacheAfterSweep(@, now)]
  /\ routeCache' # routeCache
  /\ UNCHANGED <<now, routes, cacheStats, cacheHistory>>
  /\ CacheUnchanged

NextCache ==
  \/ CachedLookup
  \/ AdminUpdateRoute
  \/ AdminDeleteRoute
  \/ CacheTick
  \/ CacheSweep

SpecCache == InitCache /\ [][NextCache]_vars

\* C30: the cache is invalidated on modification: once the admin API has
\* updated or deleted a route, every later lookup of its (path, method)
\* returns the definition as modified, or no route, and never the
\* definition cached before, also within the TTL.  (lookup is the latest
\* lookup since the last modification.)
C30_CacheFollowsUpdates ==
  routeCache.lookup.made =>
    LET id == findMatchingRoute(routes, StorageOrder(routes),
                                routeCache.lookup.path,
                                routeCache.lookup.method)
    IN  /\ routeCache.lookup.found = (id # "")
        /\ id # "" => routeCache.lookup.route = routes[id]

----------------------------------------------------------------------------
(* The route cache on its own: the exported functions called in any order *)

ApiPaths == {<<"open">>, <<"users", "42">>}

\* the routes handed to setCachedRoute
ApiRoutes ==
  {CacheRoutes.rOpen, [CacheRoutes.rOpen EXCEPT !.enabled = FALSE]}

\* getCachedRoute(path, method)
GetCachedRoute ==
  /\ cacheHistory.calls < MaxLookups
  /\ \E path \in ApiPaths :
       LET key == generateCacheKey(path, "GET")
           hit == CacheHit(routeCache.entries, key, now)
           asked == [NoCacheLookup EXCEPT !.made = TRUE, !.path = path,
                                          !.method = "GET"]
       IN  /\ routeCache' =
                [entries |-> CacheAfterGet(routeCache.entries, key, now),
                 lookup |->
                   IF hit
                   THEN [asked EXCEPT !.hit = TRUE, !.found = TRUE,
                                      !.route = routeCache.entries[key].route]
                   ELSE asked]
           /\ cacheStats' = StatsAfterGet(cacheStats, hit)
           /\ cacheHistory' = [cacheHistory EXCEPT !.calls = @ + 1]
  /\ UNCHANGED <<now, routes>>
  /\ CacheUnchanged

\* setCachedRoute(path, method, route)
SetCachedRoute ==
  /\ \E path \in ApiPaths, route \in ApiRoutes :
       LET key == generateCacheKey(path, "GET")
       IN  /\ routeCache' =
                [routeCache EXCEPT
                   !.entries = setCachedRoute(@, key, route, now)]
           /\ cacheHistory' =
                [cacheHistory EXCEPT
                   !.latest = LatestAfterSet(@, key, route, now)]
  /\ UNCHANGED <<now, routes, cacheStats>>
  /\ CacheUnchanged

\* invalidateRoute(path, method)
InvalidateRoute ==
  /\ \E path \in ApiPaths :
       LET key == generateCacheKey(path, "GET")
       IN  /\ routeCache' =
                [routeCache EXCEPT !.entries = invalidateRoute(@, key)]
           /\ cacheHistory' =
                [cacheHistory EXCEPT !.latest = invalidateRoute(@, key)]
  /\ UNCHANGED <<now, routes, cacheStats>>
  /\ CacheUnchanged

\* invalidateAllRoutes(): routeCache.clear(), and lastInvalidation is set
InvalidateAllRoutes ==
  /\ routeCache' = [routeCache EXCEPT !.entries = << >>]
  /\ cacheStats' = [cacheStats EXCEPT !.lastInvalidation = now]
  /\ cacheHistory' = [cacheHistory EXCEPT !.latest = << >>]
  /\ UNCHANGED <<now, routes>>
  /\ CacheUnchanged

\* resetCacheStats()
ResetCacheStats ==
  /\ cacheStats' = [NoStats EXCEPT
                      !.lastInvalidation = cacheStats.lastInvalidation]
  /\ cacheHistory' = [cacheHistory EXCEPT !.calls = 0]
  /\ UNCHANGED <<now, routes, routeCache>>
  /\ CacheUnchanged

NextCacheApi ==
  \/ GetCachedRoute
  \/ SetCachedRoute
  \/ InvalidateRoute
  \/ InvalidateAllRoutes
  \/ ResetCacheStats
  \/ CacheTick
  \/ CacheSweep

SpecCacheApi == InitCache /\ [][NextCacheApi]_vars

\* C31: getCachedRoute returns a route exactly when the key was set, was
\* not invalidated (alone or with all keys) since its latest set, and less
\* than 60000 ms have passed since that set; the route returned is the one
\* of that set; otherwise it returns null and the key has no entry
\* afterwards.  Each call adds one to hits or one to misses, and hits +
\* misses is the number of calls since the latest resetCacheStats.
C31_LatestLiveSet ==
  /\ [](cacheStats.hits + cacheStats.misses = cacheHistory.calls)
  /\ [][cacheHistory'.calls = cacheHistory.calls + 1 =>
          LET key == generateCacheKey(routeCache'.lookup.path,
                                      routeCache'.lookup.method)
              live == /\ key \in DOMAIN cacheHistory.latest
                      /\ now < cacheHistory.latest[key].at + 60000
          IN  /\ routeCache'.lookup.hit <=> live
              /\ routeCache'.lookup.hit =>
                   routeCache'.lookup.route = cacheHistory.latest[key].route
              /\ ~routeCache'.lookup.hit =>
                   /\ routeCache'.lookup.route = NoCacheLookup.route
                   /\ key \notin DOMAIN routeCache'.entries
              /\ IF routeCache'.lookup.hit
                 THEN /\ cacheStats'.hits = cacheStats.hits + 1
                      /\ cacheStats'.misses = cacheStats.misses
                 ELSE /\ cacheStats'.hits = cacheStats.hits
                      /\ cacheStats'.misses = cacheStats.misses + 1]_vars

\* a key set twice was looked up after 60000 ms and more had passed since
\* its latest set, and missed; an earlier lookup had hit
C31_Witness ==
  /\ routeCache.lookup.made /\ ~routeCache.lookup.hit
  /\ LET key == generateCacheKey(routeCache.lookup.path,
                                  routeCache.lookup.method)
     IN  /\ key \in DOMAIN cacheHistory.latest
         /\ now >= cacheHistory.latest[key].at + 60000
         /\ cacheHistory.latest[key].at > 1000
         /\ key \notin DOMAIN routeCache.entries
  /\ cacheStats.hits >= 1 /\ cacheStats.misses >= 1

----------------------------------------------------------------------------
(* The request log: requests that carry the token of credential k1 on     *)
(* each channel, and k1 with each authMethod                              *)

LogCredentials ==
  {[Credentials EXCEPT
      !.k1.authMethod = authMethod,
      !.k1.customHeader = IF authMethod = "custom" THEN "x-token" ELSE ""] :
     authMethod \in {"header", "bearer", "query", "custom"}}

LogRequests ==
  {Request(<<"open">>, NoCredential)}
    \cup
  {Request(<<"secure">>, credential) :
     credential \in
       {[NoCredential EXCEPT !.xApiKey = "tok1"],
        [NoCredential EXCEPT !.bearer = "tok1"],
        [NoCredential EXCEPT !.query = "tok1"],
        [NoCredential EXCEPT !.custom = [h \in {"x-token"} |-> "tok1"]]}}

InitLog ==
  /\ now \in StartTimes
  /\ routes = RouteTable
  /\ store = << >>
  /\ rlRes = UnlimitedResult(RateLimitConfig(DefaultRoute("")))
  /\ rlCall = NoCall
  /\ rlRank = [k \in Keys |-> 0]
  /\ clock \in StartClocks
  /\ apiKeys \in LogCredentials
  /\ qcall = [c \in CallIds |-> IdleCall]
  /\ qGranted = [id \in DOMAIN Credentials |-> 0]
  /\ qLast = NoQuotaCall
  /\ ExecIdle
  /\ PipelineIdle
  /\ ResolverIdle
  /\ AdminIdle
  /\ SweepIdle

\* a request arrives
ReceiveLog(r) ==
  /\ req[r].pc = "idle"
  /\ \E request \in LogRequests :
       req' = [req EXCEPT ![r] = [NoRequest EXCEPT !.pc = "resolve",
                                                   !.request = request]]
  /\ UNCHANGED <<store, apiKeys>>
  /\ PipeUnchanged

NextLog ==
  \/ \E r \in ReqIds : ReceiveLog(r)
  \/ \E r \in ReqIds : ResolveRoute(r)
  \/ \E r \in ReqIds : Authenticate(r)
  \/ \E r \in ReqIds : QuotaFindP(r)
  \/ \E r \in ReqIds : QuotaDecideP(r)
  \/ \E r \in ReqIds : QuotaUpdateP(r)
  \/ \E r \in ReqIds : RateLimitAndExecute(r)
  \/ \E r \in ReqIds : LogAndReject(r)
  \/ \E r \in ReqIds : ExecutionDone(r)
  \/ \E r \in ReqIds : ExecutionThrown(r)
  \/ \E r \in ReqIds : LogAndSend(r)

SpecLog == InitLog /\ [][NextLog]_vars

\* C38: no row of the request log holds the token of an API key, whether
\* the request carried it in X-API-Key, in Authorization: Bearer, in the
\* api_key / apikey query parameter or in a custom header: the logged
\* path, headers and body are free of it
C38_NoTokenInLogs ==
  \A r \in ReqIds :
    req[r].logged > 0 =>
      \A id \in DOMAIN apiKeys :
        /\ req[r].record.url.query # apiKeys[id].key
        /\ req[r].record.requestHeaders.xApiKey # apiKeys[id].key
        /\ req[r].record.requestHeaders.bearer # apiKeys[id].key
        /\ req[r].record.requestHeaders.basic # apiKeys[id].key
        /\ \A h \in DOMAIN req[r].record.requestHeaders.custom :
             req[r].record.requestHeaders.custom[h] # apiKeys[id].key
        /\ req[r].record.requestBody # apiKeys[id].key

----------------------------------------------------------------------------
(* The route resolver on its own: one request against every small table *)

InitResolve ==
  /\ RateLimiterIdle
  /\ QuotaIdle
  /\ ExecIdle
  /\ PipelineIdle
  /\ AdminIdle
  /\ SweepIdle
  /\ \E n \in 0..MaxRoutes :
       /\ routes \in TablesOf(n)
       /\ \E order \in OrdersOf(n) :
            resolution = [NoResolution EXCEPT !.order = order]

\* lines 31-35 of the handler: the path and the method of the request, and
\* findMatchingRoute
Lookup ==
  /\ resolution.pc = "idle"
  /\ \E path \in RequestPaths, method \in Methods :
       resolution' =
         [resolution EXCEPT
            !.pc = "found", !.path = path, !.method = method,
            !.found = findMatchingRoute(routes, resolution.order, path,
                                        method)]
  /\ UNCHANGED <<rlVars, quotaVars, execVars, req, adminVars, unswept>>

\* lines 37-49: 404 without a route, 503 for a disabled route; otherwise
\* the request goes on to admission control and, at line 90, the
\* parameters are extracted from its path
Answer ==
  /\ resolution.pc = "found"
  /\ resolution' =
       IF RouteAnswer(routes, resolution.found) # 0
       THEN [resolution EXCEPT
               !.pc = "answered",
               !.status = RouteAnswer(routes, resolution.found)]
       ELSE [resolution EXCEPT
               !.pc = "admitted",
               !.params = extractParams(routes[resolution.found].path,
                                        resolution.path)]
  /\ UNCHANGED <<rlVars, quotaVars, execVars, req, adminVars, unswept>>

NextResolve ==
  \/ Lookup
  \/ Answer

SpecResolve == InitResolve /\ [][NextResolve]_vars

----------------------------------------------------------------------------
(* Claims about the route resolver *)

\* the routes of the request's method whose path is the requested path
ExactRoutes ==
  {id \in DOMAIN routes : /\ routes[id].method = resolution.method
                          /\ routes[id].path = resolution.path}

\* C15: whatever the table and its storage order, when a route of the
\* request's method has exactly the requested path, findMatchingRoute
\* returns such a route and never a parameterized route that matches too
C15_ExactFirst ==
  (resolution.pc # "idle" /\ ExactRoutes # {})
    => resolution.found \in ExactRoutes

\* the literal route was registered after a parameterized route that
\* matches the path and storage hands it out after that route
C15_Witness ==
  /\ resolution.pc # "idle"
  /\ resolution.path = <<"users", "me">>
  /\ resolution.order = <<"rA", "rB">>
  /\ routes["rA"].path = <<"users", ":id">>
  /\ routes["rA"].method = resolution.method
  /\ resolution.found = "rB"

RECURSIVE Segments(_)
\* the segments of a path: what stands between its slashes, the empty
\* pieces left out
Segments(path) ==
  IF path = << >> THEN << >>
  ELSE IF Head(path) = "" THEN Segments(Tail(path))
  ELSE <<Head(path)>> \o Segments(Tail(path))

\* C16: matchPath(pattern, path) is true iff both have the same number of
\* segments and every pattern segment that does not start with ':' equals
\* the path segment at its position; for a matching pair extractParams
\* maps each ':'-segment name to the path segment at its position and has
\* no other key
C16_MatchAndParams ==
  (resolution.pc # "idle") =>
    LET pathSegs == Segments(resolution.path)
    IN  /\ \A id \in DOMAIN routes :
             LET pattern == Segments(routes[id].path)
             IN  matchPath(routes[id].path, resolution.path)
                   <=> /\ Len(pattern) = Len(pathSegs)
                       /\ \A i \in 1..Len(pattern) :
                            pattern[i] \notin ParamSegments
                              => pattern[i] = pathSegs[i]
        /\ (resolution.pc = "admitted") =>
             LET pattern == Segments(routes[resolution.found].path)
                 at      == {i \in 1..Len(pattern) :
                               pattern[i] \in ParamSegments}
             IN  /\ DOMAIN resolution.params
                      = {ParamName(pattern[i]) : i \in at}
                 /\ \A i \in at :
                      resolution.params[ParamName(pattern[i])] = pathSegs[i]

\* /users/:id/orders/:orderId against /users/42/orders/7
C16_Witness ==
  /\ resolution.pc = "admitted"
  /\ routes[resolution.found].path
       = <<"users", ":id", "orders", ":orderId">>
  /\ resolution.path = <<"users", "42", "orders", "7">>
  /\ resolution.params = [id |-> "42", orderId |-> "7"]

\* C17: the scan considers only enabled routes: when an enabled route of
\* the request's method matches the path and no route has exactly that
\* path, the request is resolved to an enabled route and is not answered
\* 503 on account of a disabled route that matches too
C17_ScanSkipsDisabled ==
  (/\ resolution.pc \in {"answered", "admitted"}
   /\ \A id \in DOMAIN routes : routes[id].path # resolution.path
   /\ \E id \in DOMAIN routes :
        /\ routes[id].enabled
        /\ routes[id].method = resolution.method
        /\ matchPath(routes[id].path, resolution.path))
  => /\ resolution.status # 503
     /\ resolution.found # ""
     /\ routes[resolution.found].enabled

\* C39: when a route of the request's method whose pattern has literal
\* segments only has the segments of the requested path (the empty pieces
\* of a trailing or doubled slash left out), findMatchingRoute does not
\* return a parameterized route in its place, whatever the storage order
C39_LiteralBeforeParameterized ==
  (/\ resolution.pc # "idle"
   /\ \E id \in DOMAIN routes :
        /\ routes[id].method = resolution.method
        /\ \A i \in DOMAIN routes[id].path :
             routes[id].path[i] \notin ParamSegments
        /\ Segments(routes[id].path) = Segments(resolution.path))
  => /\ resolution.found # ""
     /\ \A i \in DOMAIN routes[resolution.found].path :
          routes[resolution.found].path[i] \notin ParamSegments

====
